---- MODULE Spec2Model ----
EXTENDS Integers, Sequences, FiniteSets, TLC

(***************************************************************************)
(* A verification model of the scripts under scripts_for_vita/.            *)
(*                                                                         *)
(* Text.  A Python str is modelled as a sequence of atoms.  An atom is a   *)
(* one-character string (a digit, " ", "=", ",", "(", ")", "\n", ...) or a *)
(* whole word that the regular expressions of the scripts treat as a unit  *)
(* (a registry key such as "gui.text_size", "Borders", "gui.init").  The   *)
(* concatenation of the atoms is the text, as open(path, 'r') yields it.   *)
(* A file is the text it holds; the file system is a function from the     *)
(* paths that exist to their texts.                                        *)
(***************************************************************************)

VARIABLES
    fs,              \* the file system: path -> text, for the paths that exist
    lines_read,      \* path -> the lines the last optimize_file on it read
    lines_written,   \* path -> the lines of the text the last optimize_file on it wrote
    returned,        \* path -> the value the last optimize_file on it returned
    original,        \* the file system before the first call
    last,            \* the last call: its name, argument and return value
    prev,            \* the call before the last one
    nruns,           \* the number of calls made so far
    disk,            \* the media files: path -> size in bytes and dimensions
    tempdir,         \* the files of the temporary directory: path -> size
    media_last,      \* the last call on a media file and what it returned
    runner,          \* a workflow runner: its stages, its position and its counters
    walk,            \* a run of an optimizer over its directories: its counters
    remove,          \* the project of remove_op.py: its scripts, its videos, its runs
    unpack           \* a run of unpack_and_decompile.py: its files and its steps

media_vars == <<disk, tempdir, media_last>>
\* the variables of the other scripts, which optimize_gui.py leaves alone
not_gui_vars == <<media_vars, runner, walk, remove, unpack>>
vars == <<fs, lines_read, lines_written, returned, original, last, prev, nruns,
          disk, tempdir, media_last, runner, walk, remove, unpack>>

\* The longest file of the model counts MaxLines lines.
MaxLines == 2
\* The media optimizers are called at most MaxMediaRuns times.
MaxMediaRuns == 2

\* remove_op.py is run at most MaxRemoveRuns times.
MaxRemoveRuns == 2

\* A directory walk meets at most MaxWalk files.
MaxWalk == 10
\* A behaviour of optimize_gui.py makes at most MaxRuns calls.
MaxRuns == 3
\* The media directories hold at most MaxFiles files at the start.
MaxFiles == 2

-----------------------------------------------------------------------------
(* str, int and re primitives *)

Max(a, b) == IF a >= b THEN a ELSE b

\* Body applied to the value of e, which is computed once
With(e, Body(_)) == CHOOSE r \in {Body(v) : v \in {e}} : TRUE

Digits == {"0", "1", "2", "3", "4", "5", "6", "7", "8", "9"}

\* \s of the re module; an indentation is one atom of several spaces
Indent4 == "    "
Indent8 == "        "
Indent12 == "            "
Indent16 == "                "
Indent20 == "                    "
IsSpace(a) == a \in {" ", "\t", "\n", Indent4, Indent8, Indent12, Indent16, Indent20}

\* \d of the re module
IsDigit(a) == a \in Digits

DigitVal(a) ==
    CASE a = "0" -> 0 [] a = "1" -> 1 [] a = "2" -> 2 [] a = "3" -> 3
      [] a = "4" -> 4 [] a = "5" -> 5 [] a = "6" -> 6 [] a = "7" -> 7
      [] a = "8" -> 8 [] a = "9" -> 9

DigitChar(d) ==
    CASE d = 0 -> "0" [] d = 1 -> "1" [] d = 2 -> "2" [] d = 3 -> "3"
      [] d = 4 -> "4" [] d = 5 -> "5" [] d = 6 -> "6" [] d = 7 -> "7"
      [] d = 8 -> "8" [] d = 9 -> "9"

\* int(s) for a string of digits: leading zeros do not count
RECURSIVE ParseInt(_)
ParseInt(s) ==
    IF s = <<>> THEN 0
    ELSE 10 * ParseInt(SubSeq(s, 1, Len(s) - 1)) + DigitVal(s[Len(s)])

\* str(n), and f'{n}', for a non-negative int: no leading zeros
RECURSIVE FormatInt(_)
FormatInt(n) ==
    IF n < 10 THEN <<DigitChar(n)>>
    ELSE FormatInt(n \div 10) \o <<DigitChar(n % 10)>>

\* the first index >= i of s that holds no whitespace (Len(s) + 1 if none)
RECURSIVE SkipSpace(_, _)
SkipSpace(s, i) ==
    IF i <= Len(s) /\ IsSpace(s[i]) THEN SkipSpace(s, i + 1) ELSE i

\* the first index >= i of s that holds no digit (Len(s) + 1 if none)
RECURSIVE SkipDigits(_, _)
SkipDigits(s, i) ==
    IF i <= Len(s) /\ IsDigit(s[i]) THEN SkipDigits(s, i + 1) ELSE i

\* old at index i of s
OccursAt(s, old, i) ==
    /\ i >= 1
    /\ i + Len(old) - 1 <= Len(s)
    /\ \A k \in 1..Len(old) : s[i + k - 1] = old[k]

\* old in s
Contains(s, old) == \E i \in 1..Len(s) : OccursAt(s, old, i)

\* s.replace(old, new, count): the first count occurrences, left to right,
\* not overlapping; count = -1 replaces them all
RECURSIVE StrReplace(_, _, _, _)
StrReplace(s, old, new, count) ==
    IF count = 0 \/ Len(s) < Len(old) THEN s
    ELSE IF OccursAt(s, old, 1)
         THEN new \o StrReplace(SubSeq(s, Len(old) + 1, Len(s)), old, new,
                                IF count > 0 THEN count - 1 ELSE count)
         ELSE <<s[1]>> \o StrReplace(Tail(s), old, new, count)

\* f.readlines(): the text cut after each "\n"
RECURSIVE Readlines(_)
Readlines(text) ==
    IF text = <<>> THEN <<>>
    ELSE LET nl == {i \in 1..Len(text) : text[i] = "\n"}
             cut == IF nl = {} THEN Len(text)
                    ELSE CHOOSE i \in nl : \A j \in nl : i <= j
         IN  <<SubSeq(text, 1, cut)>> \o Readlines(SubSeq(text, cut + 1, Len(text)))

\* ''.join(lines), and what f.writelines(lines) writes
RECURSIVE Join(_)
Join(ls) == IF ls = <<>> THEN <<>> ELSE Head(ls) \o Join(Tail(ls))

\* content.split('\n'): the pieces between the newlines, the last one included
\* even when it is empty
RECURSIVE SplitNewline(_)
SplitNewline(text) ==
    LET nl == {i \in 1..Len(text) : text[i] = "\n"}
    IN  IF nl = {} THEN <<text>>
        ELSE LET cut == CHOOSE i \in nl : \A j \in nl : i <= j
             IN  <<SubSeq(text, 1, cut - 1)>>
                   \o SplitNewline(SubSeq(text, cut + 1, Len(text)))

-----------------------------------------------------------------------------
(* optimize_gui.py: the registries *)

gui_path == "game/gui.rpy"
screens_path == "game/screens.rpy"

\* 0.75, as the fraction it is
SCALE_RATIO == [num |-> 3, den |-> 4]

\* lambda x: max(floor, int(x * pct / 100))
Clamp(floor, pct) == [kind |-> "clamp", floor |-> floor, pct |-> pct]
\* lambda x: int(x * pct / 100)
Mul(pct) == [kind |-> "mul", pct |-> pct]
\* transform=None
NoTransform == [kind |-> "none"]

gui_numeric_configs == <<
    <<"gui.textbox_height", TRUE>>,
    <<"gui.name_xpos", TRUE>>,
    <<"gui.name_ypos", TRUE>>,
    <<"gui.dialogue_xpos", TRUE>>,
    <<"gui.dialogue_ypos", TRUE>>,
    <<"gui.dialogue_width", TRUE>>,
    <<"gui.choice_button_width", TRUE>>,
    <<"gui.slot_button_width", TRUE>>,
    <<"gui.slot_button_height", TRUE>>,
    <<"config.thumbnail_width", TRUE>>,
    <<"config.thumbnail_height", TRUE>>,
    <<"gui.navigation_xpos", TRUE>>,
    <<"gui.skip_ypos", TRUE>>,
    <<"gui.notify_ypos", TRUE>>,
    <<"gui.choice_spacing", TRUE>>,
    <<"gui.navigation_spacing", TRUE>>,
    <<"gui.pref_spacing", TRUE>>,
    <<"gui.slot_spacing", TRUE>>,
    <<"gui.history_name_xpos", TRUE>>,
    <<"gui.history_name_ypos", TRUE>>,
    <<"gui.history_name_width", TRUE>>,
    <<"gui.history_text_xpos", FALSE, Mul(50)>>,
    <<"gui.history_text_ypos", TRUE>>,
    <<"gui.history_text_width", TRUE>>,
    <<"gui.nvl_name_width", TRUE>>,
    <<"gui.nvl_text_xpos", TRUE>>,
    <<"gui.nvl_text_ypos", TRUE>>,
    <<"gui.nvl_text_width", TRUE>>,
    <<"gui.nvl_thought_xpos", TRUE>>,
    <<"gui.nvl_thought_width", TRUE>>,
    <<"gui.nvl_button_xpos", TRUE>>,
    <<"gui.bar_size", TRUE>>,
    <<"gui.scrollbar_size", TRUE>>,
    <<"gui.slider_size", TRUE>>,
    <<"gui.text_size", FALSE, Clamp(18, 90)>>,
    <<"gui.name_text_size", FALSE, Clamp(22, 87)>>,
    <<"gui.interface_text_size", FALSE, Clamp(18, 90)>>,
    <<"gui.label_text_size", FALSE, Clamp(20, 90)>>,
    <<"gui.notify_text_size", FALSE, Clamp(14, 90)>>,
    <<"gui.title_text_size", FALSE, Clamp(40, 90)>> >>

gui_borders_configs == <<
    "gui.namebox_borders",
    "gui.button_borders",
    "gui.radio_button_borders",
    "gui.check_button_borders",
    "gui.page_button_borders",
    "gui.quick_button_borders",
    "gui.choice_button_borders",
    "gui.slot_button_borders",
    "gui.frame_borders",
    "gui.confirm_frame_borders",
    "gui.skip_frame_borders",
    "gui.notify_frame_borders",
    "gui.bar_borders",
    "gui.scrollbar_borders",
    "gui.slider_borders",
    "gui.vbar_borders",
    "gui.vscrollbar_borders",
    "gui.vslider_borders",
    "gui.nvl_borders" >>

\* the entries are 'keyword number': the keyword and the digits of the number
screens_numeric_configs == <<
    <<<<"xsize", " ", "2", "8", "0">>, TRUE>>,
    <<<<"xsize", " ", "9", "2", "0">>, TRUE>>,
    <<<<"top_padding", " ", "1", "2", "0">>, TRUE>>,
    <<<<"bottom_padding", " ", "3", "0">>, TRUE>>,
    <<<<"left_margin", " ", "4", "0">>, TRUE>>,
    <<<<"right_margin", " ", "2", "0">>, TRUE>> >>

-----------------------------------------------------------------------------
(* optimize_gui.py: backup, scaling and the three line processors *)

BackupPath(file_path) == file_path \o ".backup"

\* os.path.exists
Exists(files, path) == path \in DOMAIN files

\* the file system with text written to path (open(path, 'w'), shutil.copy2)
WriteFile(files, path, text) ==
    [p \in DOMAIN files \cup {path} |-> IF p = path THEN text ELSE files[p]]

\* a backup taken on every call
backup_file_always(files, file_path) ==
    WriteFile(files, BackupPath(file_path), files[file_path])

\* copies the target to <target>.backup unless the backup exists
backup_file(files, file_path) ==
    IF ~Exists(files, BackupPath(file_path))
    THEN WriteFile(files, BackupPath(file_path), files[file_path])
    ELSE files

\* a restore that leaves the target as it is
restore_backup_skipped(files, file_path) == files

\* copies <target>.backup over the target when the backup exists
restore_backup(files, file_path) ==
    IF Exists(files, BackupPath(file_path))
    THEN WriteFile(files, file_path, files[BackupPath(file_path)])
    ELSE files

\* max(1, int(value * ratio))
scale_value(value) == Max(1, (value * SCALE_RATIO.num) \div SCALE_RATIO.den)

\* transform(old_value) of a registry lambda
ApplyTransform(transform, x) ==
    CASE transform.kind = "clamp" -> Max(transform.floor, (x * transform.pct) \div 100)
      [] transform.kind = "mul" -> (x * transform.pct) \div 100

\* new_value of process_config_line and process_screens_line
NewValue(transform, old_value) ==
    IF transform.kind # "none" THEN ApplyTransform(transform, old_value)
    ELSE scale_value(old_value)

\* a processor that found no match: (None, None, None)
NoResult == [matched |-> FALSE]

\* the least element of a non-empty set of indices
Least(S) == CHOOSE i \in S : \A j \in S : i <= j

\* Regular expressions.  A pattern is a sequence of pieces: a literal word
\* <<"lit", w>> for re.escape(w), <<"s*">> and <<"s+">> for greedy runs of
\* whitespace, <<"d+">> for a greedy run of digits.  In the patterns of the
\* script a run of whitespace is followed by a piece that matches no
\* whitespace and a run of digits by a piece that matches no digit, so a
\* match never backtracks.

\* the index after piece matched at index i of s, 0 when it does not match
Piece(s, i, piece) ==
    CASE piece[1] = "lit" -> IF OccursAt(s, piece[2], i) THEN i + Len(piece[2]) ELSE 0
      [] piece[1] = "s*" -> SkipSpace(s, i)
      [] piece[1] = "s+" -> IF SkipSpace(s, i) > i THEN SkipSpace(s, i) ELSE 0
      [] piece[1] = "d+" -> IF SkipDigits(s, i) > i THEN SkipDigits(s, i) ELSE 0

\* pattern[k..] matched at the index ends ends with: ends extended by the
\* index after each piece, or <<>> when a piece does not match
RECURSIVE MatchFrom(_, _, _, _)
MatchFrom(s, pattern, k, ends) ==
    IF k > Len(pattern) THEN ends
    ELSE With(Piece(s, ends[Len(ends)], pattern[k]),
              LAMBDA nxt : IF nxt = 0 THEN <<>>
                           ELSE MatchFrom(s, pattern, k + 1, Append(ends, nxt)))

\* re.search(pattern, s): the leftmost match, as the start index followed by
\* the index after each piece; <<>> for None.  Every pattern of the script
\* begins with a literal word.
Search(s, pattern) ==
    LET \* the matches of pat that start where its first atom stands
        Leftmost(pat) ==
            With({i \in 1..Len(s) : s[i] = pat[1][2][1]},
                 LAMBDA starts :
                    With({i \in starts : MatchFrom(s, pat, 1, <<i>>) # <<>>},
                         LAMBDA hits : IF hits = {} THEN <<>>
                                       ELSE MatchFrom(s, pat, 1, <<Least(hits)>>)))
    IN  With(pattern, Leftmost)

\* rf'({re.escape(config_name)}\s*=\s*)(\d+)'
AssignPattern(config_name) ==
    << <<"lit", <<config_name>>>>, <<"s*">>, <<"lit", <<"=">>>>, <<"s*">>, <<"d+">> >>

process_config_line(line, config_name, transform) ==
    LET Result(match) ==
            IF match = <<>> THEN NoResult
            ELSE LET prefix == SubSeq(line, match[1], match[5] - 1)
                     old_value == ParseInt(SubSeq(line, match[5], match[6] - 1))
                     new_value == NewValue(transform, old_value)
                 IN  [matched |-> TRUE,
                      result |-> StrReplace(line, prefix \o FormatInt(old_value),
                                            prefix \o FormatInt(new_value), -1),
                      old |-> old_value, new |-> new_value]
    IN  With(Search(line, AssignPattern(config_name)), Result)

\* rf'({re.escape(config_name)}\s*=\s*Borders\()(\d+),\s*(\d+),\s*(\d+),\s*(\d+)(\))'
BordersPattern(config_name) ==
    << <<"lit", <<config_name>>>>, <<"s*">>, <<"lit", <<"=">>>>, <<"s*">>,
       <<"lit", <<"Borders">>>>, <<"lit", <<"(">>>>,
       <<"d+">>, <<"lit", <<",">>>>, <<"s*">>,
       <<"d+">>, <<"lit", <<",">>>>, <<"s*">>,
       <<"d+">>, <<"lit", <<",">>>>, <<"s*">>,
       <<"d+">>, <<"lit", <<")">>>> >>

process_borders_line(line, config_name) ==
    LET Result(match) ==
            IF match = <<>> THEN NoResult
            ELSE LET prefix == SubSeq(line, match[1], match[7] - 1)
                     left == ParseInt(SubSeq(line, match[7], match[8] - 1))
                     top == ParseInt(SubSeq(line, match[10], match[11] - 1))
                     right == ParseInt(SubSeq(line, match[13], match[14] - 1))
                     bottom == ParseInt(SubSeq(line, match[16], match[17] - 1))
                     suffix == SubSeq(line, match[17], match[18] - 1)
                     new_left == scale_value(left)
                     new_top == scale_value(top)
                     new_right == scale_value(right)
                     new_bottom == scale_value(bottom)
                     old_str == prefix \o FormatInt(left) \o <<",", " ">>
                                  \o FormatInt(top) \o <<",", " ">>
                                  \o FormatInt(right) \o <<",", " ">>
                                  \o FormatInt(bottom) \o suffix
                     new_str == prefix \o FormatInt(new_left) \o <<",", " ">>
                                  \o FormatInt(new_top) \o <<",", " ">>
                                  \o FormatInt(new_right) \o <<",", " ">>
                                  \o FormatInt(new_bottom) \o suffix
                 IN  [matched |-> TRUE,
                      result |-> StrReplace(line, old_str, new_str, -1),
                      old |-> <<left, top, right, bottom>>,
                      new |-> <<new_left, new_top, new_right, new_bottom>>]
    IN  With(Search(line, BordersPattern(config_name)), Result)

\* config_pattern.rsplit()[0]: the atoms before the first whitespace
FirstWord(config_pattern) ==
    LET ws == {i \in 1..Len(config_pattern) : IsSpace(config_pattern[i])}
    IN  IF ws = {} THEN config_pattern
        ELSE SubSeq(config_pattern, 1, Least(ws) - 1)

\* rf'({re.escape(config_pattern.rsplit()[0])}\s+)(\d+)'
KeywordPattern(config_pattern) ==
    << <<"lit", FirstWord(config_pattern)>>, <<"s+">>, <<"d+">> >>

process_screens_line(line, config_pattern, transform) ==
    LET Result(match) ==
            IF match = <<>> THEN NoResult
            ELSE LET prefix == SubSeq(line, match[1], match[3] - 1)
                     old_value == ParseInt(SubSeq(line, match[3], match[4] - 1))
                     new_value == NewValue(transform, old_value)
                 IN  [matched |-> TRUE,
                      result |-> StrReplace(line, prefix \o FormatInt(old_value),
                                            prefix \o FormatInt(new_value), -1),
                      old |-> old_value, new |-> new_value]
    IN  With(Search(line, KeywordPattern(config_pattern)), Result)

-----------------------------------------------------------------------------
(* The sample files: the lines the two files may hold at the start *)

\* the line 'name = digits'
Assign(name, digits) == <<name, " ", "=", " ">> \o digits \o <<"\n">>

GuiSample == <<
    Assign("gui.bar_size", <<"1", "0">>),
    Assign("gui.bar_size", <<"0">>),
    Assign("gui.bar_size", <<"0", "0", "7">>),
    Assign("gui.text_size", <<"4", "0">>),
    Assign("gui.text_size", <<"1", "0">>),
    Assign("gui.name_text_size", <<"0", "3", "0">>),
    Assign("gui.history_text_xpos", <<"5">>),
    <<"gui.namebox_borders", " ", "=", " ", "Borders", "(",
      "1", "0", ",", " ", "2", "0", ",", " ", "1", "0", ",", " ", "5", ")", "\n">>,
    <<"gui.frame_borders", " ", "=", " ", "Borders", "(",
      "1", "0", ",", "2", "0", ",", "1", "0", ",", "5", ")", "\n">>,
    <<"gui.bar_size", " ", "=", " ", "1", "0", " ", "#", " ",
      "gui.bar_size", " ", "=", " ", "1", "0", "0", "\n">>,
    <<"gui.text_size", " ", "=", " ", "4", "0", ";", " ",
      "gui.bar_size", " ", "=", " ", "1", "0", "\n">>,
    <<"define", " ", "gui.accent_color", " ", "=", " ", "'#cc6600'", "\n">>,
    <<Indent4, "gui.init", "(", "1", "2", "8", "0", ",", " ", "7", "2", "0", ")", "\n">>,
    <<"gui.slider_size", "=", "2", "5">> >>

ScreensSample == <<
    <<Indent4, "xsize", " ", "2", "8", "0", "\n">>,
    <<Indent4, "xsize", " ", "9", "2", "0", "\n">>,
    <<Indent4, "top_padding", " ", "1", "2", "0", "\n">>,
    <<Indent8, "text what id \"what\"", "\n">>,
    <<"style", " ", "say_dialogue", ":", "\n">>,
    <<Indent4, "right_margin", " ", "0", "2", "0">> >>

\* 'gui.init(1280, 720)' and 'gui.init(960, 544)'
GuiInitOld == <<"gui.init", "(", "1", "2", "8", "0", ",", " ", "7", "2", "0", ")">>
\* a replacement that puts the call back as it was
GuiInitKept == GuiInitOld
GuiInitNew == <<"gui.init", "(", "9", "6", "0", ",", " ", "5", "4", "4", ")">>

\* lines of gui.rpy with the gui.init call, once and twice, and with literals
\* that are not plain unsigned integers
GuiEdgeSample == <<
    <<Indent4>> \o GuiInitOld \o <<"\n">>,
    GuiInitOld \o <<";", " ">> \o GuiInitOld \o <<"\n">>,
    Assign("gui.bar_size", <<"-", "5">>),
    Assign("gui.text_size", <<"0", ".", "5">>),
    Assign("gui.bar_size", <<"1", "2", ".", "5">>),
    Assign("gui.text_size", <<"4", "0">>) >>

\* lines of screens.rpy with a keyword of the registry once and twice, with
\* the say text, the viewport id and the marker of the scroll block
ScreensEdgeSample == <<
    <<Indent4, "xsize", " ", "5", "0", "0", "\n">>,
    <<Indent4, "xsize", " ", "2", "8", "0", " ", "#", " ", "xsize", " ", "9", "2", "0", "\n">>,
    <<Indent4, "xsize", " ", "0", "2", "8", "0", "\n">>,
    <<Indent8, "text what id \"what\"", "\n">>,
    <<Indent8, "text what id \"what\"", " ", "#", " ", "say", "\n">>,
    <<Indent8, "id \"dialogue_viewport\"", "\n">>,
    <<Indent4, "# PS Vita: Add viewport for long text scrolling", "\n">>,
    <<Indent4>> \o GuiInitOld \o <<"\n">> >>

-----------------------------------------------------------------------------
(* optimize_gui.py: optimize_file *)

\* bool(result) of a processor's first return value: a non-empty str
Truthy(r) == r.matched /\ r.result # <<>>

\* the processor's result for the k-th numeric config
TryConfig(line, configs, is_screens, k) ==
    LET config == configs[k]
        config_name == config[1]
        transform == IF Len(config) = 2 THEN NoTransform ELSE config[3]
    IN  IF is_screens
        THEN process_screens_line(line, config_name, transform)
        ELSE process_config_line(line, config_name, transform)

\* the loop over the numeric configs, which stops at the first config whose
\* result is truthy: that result, or NoResult when the loop ends without one
TryConfigs(line, configs, is_screens) ==
    With({k \in 1..Len(configs) : Truthy(TryConfig(line, configs, is_screens, k))},
         LAMBDA hits : IF hits = {} THEN NoResult
                       ELSE TryConfig(line, configs, is_screens, Least(hits)))

\* the loop over gui_borders_configs, which stops at the first name whose
\* result is truthy
TryBorders(line) ==
    With({k \in 1..Len(gui_borders_configs) :
             Truthy(process_borders_line(line, gui_borders_configs[k]))},
         LAMBDA hits : IF hits = {} THEN NoResult
                       ELSE process_borders_line(line, gui_borders_configs[Least(hits)]))

\* a loop body that counts a line only when its text changed
ProcessLineIfChanged(line, configs, is_screens) ==
    With(TryConfigs(line, configs, is_screens),
         LAMBDA r :
            IF Truthy(r) THEN [new_line |-> r.result, modified |-> r.result # line]
            ELSE IF ~is_screens
            THEN With(TryBorders(line),
                      LAMBDA b :
                         IF Truthy(b)
                         THEN [new_line |-> b.result, modified |-> b.result # line]
                         ELSE [new_line |-> line, modified |-> FALSE])
            ELSE [new_line |-> line, modified |-> FALSE])

\* the body of 'for line in lines': new_line and modified
ProcessLine(line, configs, is_screens) ==
    With(TryConfigs(line, configs, is_screens),
         LAMBDA r :
            IF Truthy(r) THEN [new_line |-> r.result, modified |-> TRUE]
            ELSE IF ~is_screens
            THEN With(TryBorders(line),
                      LAMBDA b :
                         IF Truthy(b) THEN [new_line |-> b.result, modified |-> TRUE]
                         ELSE [new_line |-> line, modified |-> FALSE])
            ELSE [new_line |-> line, modified |-> FALSE])

\* the lines ProcessLine makes of the lines in ls, n times over
RECURSIVE Rewritings(_, _, _, _)
Rewritings(ls, configs, is_screens, n) ==
    IF n = 0 THEN ls
    ELSE Rewritings(ls \cup {ProcessLine(l, configs, is_screens).new_line : l \in ls},
                    configs, is_screens, n - 1)

\* ProcessLine, tabulated for the lines of the sample files and their
\* rewritings; the tables are constants, which TLC computes once
GuiLineTable ==
    [l \in Rewritings({GuiSample[i] : i \in 1..Len(GuiSample)}
                         \cup {GuiEdgeSample[i] : i \in 1..Len(GuiEdgeSample)},
                      gui_numeric_configs, FALSE, MaxRuns) |->
        ProcessLine(l, gui_numeric_configs, FALSE)]
ScreensLineTable ==
    [l \in Rewritings({ScreensSample[i] : i \in 1..Len(ScreensSample)}
                         \cup {ScreensEdgeSample[i] : i \in 1..Len(ScreensEdgeSample)},
                      screens_numeric_configs, TRUE, MaxRuns) |->
        ProcessLine(l, screens_numeric_configs, TRUE)]

\* ProcessLine(line, configs, is_screens), read from the tables when it is there
ProcessLineOnce(line, configs, is_screens) ==
    IF configs = gui_numeric_configs /\ ~is_screens /\ line \in DOMAIN GuiLineTable
    THEN GuiLineTable[line]
    ELSE IF configs = screens_numeric_configs /\ is_screens
            /\ line \in DOMAIN ScreensLineTable
    THEN ScreensLineTable[line]
    ELSE ProcessLine(line, configs, is_screens)

\* 'for line in lines': the outcome of the loop body for each line, in order
RECURSIVE ProcessLines(_, _, _)
ProcessLines(ls, configs, is_screens) ==
    IF ls = <<>> THEN <<>>
    ELSE <<ProcessLineOnce(Head(ls), configs, is_screens)>>
           \o ProcessLines(Tail(ls), configs, is_screens)


\* the pieces without their newlines
RelinesBare(pieces) == pieces

\* [line + '\n' for line in pieces[:-1]] + [pieces[-1]]
RECURSIVE Relines(_)
Relines(pieces) ==
    IF Len(pieces) <= 1 THEN pieces
    ELSE <<Head(pieces) \o <<"\n">>>> \o Relines(Tail(pieces))

\* new_lines after the loop: the new_line of each line, in order
RECURSIVE NewLinesOf(_)
NewLinesOf(done) ==
    IF done = <<>> THEN <<>> ELSE <<Head(done).new_line>> \o NewLinesOf(Tail(done))

\* a target created empty and reported as processed
MissingTargetCreated(files, file_path) ==
    [fs |-> WriteFile(files, file_path, <<>>), ret |-> 0,
     lines |-> <<>>, new_lines |-> <<>>]

\* 'if not os.path.exists(file_path): ... return -1'
MissingTarget(files, file_path) == [fs |-> files, ret |-> -1]

\* optimize_file: the file system it leaves, the value it returns, and the
\* lines it read and wrote
optimize_file(files, file_path, configs, is_screens, auto_restore) ==
    IF ~Exists(files, file_path) THEN MissingTarget(files, file_path)
    ELSE
    LET backup_path == BackupPath(file_path)
        restored == IF auto_restore /\ Exists(files, backup_path)
                    THEN restore_backup(files, file_path) ELSE files
        backed == backup_file(restored, file_path)
        lines == Readlines(backed[file_path])
        \* after the loop over the lines, whose outcomes are done
        AfterLoop(done) ==
            LET line_count == Cardinality({i \in 1..Len(done) : done[i].modified})
                content == Join(NewLinesOf(done))
                init == ~is_screens /\ Contains(content, GuiInitOld)
                new_lines ==
                    IF init
                    THEN Relines(SplitNewline(
                             StrReplace(content, GuiInitOld, GuiInitNew, -1)))
                    ELSE NewLinesOf(done)
                modified_count == line_count + (IF init THEN 1 ELSE 0)
            IN  [fs |-> WriteFile(backed, file_path, Join(new_lines)),
                 ret |-> modified_count, lines |-> lines, new_lines |-> new_lines]
    IN  With(ProcessLines(lines, configs, is_screens), AfterLoop)

-----------------------------------------------------------------------------
(* optimize_gui.py: add_scroll_to_say_screen *)

ScrollMarker == <<"# PS Vita: Add viewport for long text scrolling">>
old_text == <<"text what id \"what\"">>
ViewportId == <<"id \"dialogue_viewport\"">>

\* one of the two viewport blocks of new_text; the first one ends "- 90"
ViewportBlock(xsize_expr) ==
    <<Indent12, "viewport:", "\n", Indent16>> \o ViewportId \o <<"\n",
      Indent16, "xpos int(gui.dialogue_xpos * 0.7)  # Reduce left margin", "\n",
      Indent16, "xsize", " ", xsize_expr, "\n",
      Indent16, "ypos int(gui.dialogue_ypos * 0.5)  # Reduce top margin", "\n",
      Indent16, "ysize int((gui.textbox_height - gui.dialogue_ypos) * 0.9) - 5  # Reduce bottom margin", "\n",
      Indent16, "\n",
      Indent16, "scrollbars None", "\n",
      Indent16, "mousewheel True", "\n",
      Indent16, "draggable True", "\n",
      Indent16, "\n",
      Indent16>> \o old_text \o <<":", "\n",
      Indent20, "xsize", " ", "None  # Override say_dialogue style xsize limit">>

new_text ==
    ScrollMarker \o <<"\n", Indent8, "if not isinstance(SideImage(), Null):", "\n">>
      \o ViewportBlock("int(gui.dialogue_width * 1.2) - 90")
      \o <<"\n", Indent8, "else:", "\n">>
      \o ViewportBlock("int(gui.dialogue_width * 1.2)")

\* a replacement of every occurrence of old_text
add_scroll_everywhere(files, file_path) ==
    LET content == files[file_path]
    IN  IF Contains(content, ScrollMarker) THEN [fs |-> files, ret |-> 0]
        ELSE IF ~Contains(content, old_text) THEN [fs |-> files, ret |-> 0]
        ELSE IF Contains(content, ViewportId) THEN [fs |-> files, ret |-> 0]
        ELSE [fs |-> WriteFile(files, file_path, StrReplace(content, old_text, new_text, -1)),
              ret |-> 1]

add_scroll_to_say_screen(files, file_path) ==
    LET content == files[file_path]
    IN  IF Contains(content, ScrollMarker) THEN [fs |-> files, ret |-> 0]
        ELSE IF ~Contains(content, old_text) THEN [fs |-> files, ret |-> 0]
        ELSE IF Contains(content, ViewportId) THEN [fs |-> files, ret |-> 0]
        ELSE [fs |-> WriteFile(files, file_path, StrReplace(content, old_text, new_text, 1)),
              ret |-> 1]

-----------------------------------------------------------------------------
(* optimize_gui.py: optimize_gui, optimize_screens, main *)

optimize_gui(files, auto_restore) ==
    With(optimize_file(files, gui_path, gui_numeric_configs, FALSE, auto_restore),
         LAMBDA r : IF r.ret < 0 THEN [fs |-> r.fs, ret |-> -1, file |-> r]
                    ELSE [fs |-> r.fs, ret |-> r.ret, file |-> r])

optimize_screens(files, auto_restore) ==
    With(optimize_file(files, screens_path, screens_numeric_configs, TRUE, auto_restore),
         LAMBDA r :
            IF r.ret < 0 THEN [fs |-> r.fs, ret |-> -1, file |-> r]
            ELSE With(add_scroll_to_say_screen(r.fs, screens_path),
                      LAMBDA scroll :
                         [fs |-> scroll.fs,
                          ret |-> IF scroll.ret > 0 THEN r.ret + scroll.ret ELSE r.ret,
                          file |-> r]))

\* the exit code of a script run as a program, whose main returned success:
\* optimize_gui.py calls main() and then sys.exit(0); the other scripts end
\* with sys.exit(0 if success else 1)
ExitCode(script, success) ==
    IF script = "optimize_gui.py" THEN 0
    ELSE IF success THEN 0 ELSE 1

\* main: gui.rpy first; screens.rpy only when gui.rpy was processed
main(files, auto_restore) ==
    With(optimize_gui(files, auto_restore),
         LAMBDA g :
            IF g.ret < 0 THEN [fs |-> g.fs, ok |-> FALSE, gui |-> g, ran_screens |-> FALSE]
            ELSE With(optimize_screens(g.fs, auto_restore),
                      LAMBDA sc : [fs |-> sc.fs, ok |-> sc.ret >= 0, gui |-> g,
                                   screens |-> sc, ran_screens |-> TRUE]))

-----------------------------------------------------------------------------
(* Media files.  A path is a sequence of atoms that ends with the          *)
(* extension, as written: <<"a", ".wav">>, <<"A", ".WAV">>.  A file is its  *)
(* size in bytes and, for an image, its width and height.  The temporary   *)
(* directory is a file system of its own.                                  *)

NoMedia == [p \in {} |-> 0]

\* str.lower() of an extension
Lower(ext) ==
    CASE ext = ".WAV" -> ".wav"
      [] ext = ".PNG" -> ".png"
      [] OTHER -> ext

\* os.path.splitext(path)[1]
Splitext(path) == path[Len(path)]

\* the file system without path (os.remove, and the source of shutil.move)
Remove(files, path) == [p \in DOMAIN files \ {path} |-> files[p]]

\* the decimal digits of k, as a string
RECURSIVE IdStr(_)
IdStr(k) == IF k < 10 THEN DigitChar(k) ELSE IdStr(k \div 10) \o DigitChar(k % 10)

\* tempfile.NamedTemporaryFile(suffix=suffix, delete=False): the name of a
\* file that does not exist, whose stem no file of the directory bears
TempName(temps, suffix) ==
    LET used == {k \in 1..(Cardinality(DOMAIN temps) + 1) :
                    \E t \in DOMAIN temps : t[2] = "tmp" \o IdStr(k)}
        k == Least((1..(Cardinality(DOMAIN temps) + 1)) \ used)
    IN  <<"/tmp/", "tmp" \o IdStr(k), suffix>>

\* a comparison of sizes that never holds
MbNeverMore(a, b, n, d) == FALSE

\* the size of a file that was not measured
NotMeasured == 0 - 1

\* (a - b) / (1024 * 1024) > n / d, for sizes in bytes
MbMoreThan(a, b, n, d) == (a - b) * d > n * 1048576

-----------------------------------------------------------------------------
(* optimize_audio.py: compress_mp3, compress_ogg, compress_wav_to_ogg and  *)
(* optimize_audio                                                          *)

\* What ffmpeg does on a call: has is HAS_FFMPEG, rc_ok says that its return
\* code was 0, wrote that it wrote the output file, of out_size bytes;
\* move_ok says that shutil.move did not raise.
FfmpegRuns ==
    {e \in [has : BOOLEAN, rc_ok : BOOLEAN, wrote : BOOLEAN,
            out_size : {60000, 105000, 120000}, move_ok : BOOLEAN] :
        /\ e.rc_ok => e.wrote
        /\ ~e.has => ~e.wrote /\ ~e.rc_ok}

\* compress_*: the temporary directory after the run and the value returned,
\* result.returncode == 0 and os.path.exists(output_path)
compress(temps, output_path, run) ==
    IF ~run.has THEN [temps |-> temps, success |-> FALSE]
    ELSE LET after == IF run.wrote THEN WriteFile(temps, output_path, run.out_size)
                      ELSE temps
         IN  [temps |-> after, success |-> run.rc_ok /\ Exists(after, output_path)]

\* a file of size bytes that is no image
Sound(size) == [size |-> size, dims |-> <<0, 0>>]

\* optimize_audio(audio_path): the two file systems it leaves, success, the
\* first word of the message, and the size it measured of the file the tool
\* wrote (NotMeasured when it did not come to measure it)
optimize_audio(files, temps, audio_path, run) ==
    IF ~Exists(files, audio_path)
    THEN [disk |-> files, temps |-> temps, success |-> FALSE, message |-> "Error",
          new_size |-> NotMeasured]
    ELSE
    LET original_size == files[audio_path].size
        file_ext == Lower(Splitext(audio_path))
        created == TempName(temps, file_ext)
        temps1 == WriteFile(temps, created, 0)
        recompress == file_ext \in {".mp3", ".ogg"}
        ogg_path == StrReplace(created, <<file_ext>>, <<".ogg">>, -1)
        AfterTool(c) ==
            LET temp_path == IF ~recompress /\ c.success THEN ogg_path ELSE created
                new_size == c.temps[temp_path]
                new_path == StrReplace(audio_path, <<file_ext>>, <<".ogg">>, -1)
                \* 'except Exception: if os.path.exists(temp_path): os.remove(temp_path)'
                Raised == [disk |-> files, temps |-> Remove(c.temps, temp_path),
                           success |-> FALSE, message |-> "Error",
                           new_size |-> new_size]
            IN  IF ~c.success
                THEN [disk |-> files, temps |-> Remove(c.temps, temp_path),
                      success |-> FALSE, message |-> "failed",
                      new_size |-> NotMeasured]
                ELSE IF MbMoreThan(new_size, original_size, 1, 100) /\ recompress
                THEN [disk |-> files, temps |-> Remove(c.temps, temp_path),
                      success |-> FALSE, message |-> "Skipped",
                      new_size |-> new_size]
                ELSE IF ~run.move_ok THEN Raised
                ELSE IF ~recompress
                THEN [disk |-> Remove(WriteFile(files, new_path, Sound(new_size)),
                                      audio_path),
                      temps |-> Remove(c.temps, temp_path),
                      success |-> TRUE, message |-> "Converted",
                      new_size |-> new_size]
                ELSE [disk |-> WriteFile(files, audio_path, Sound(new_size)),
                      temps |-> Remove(c.temps, temp_path),
                      success |-> TRUE,
                      message |-> IF MbMoreThan(original_size, new_size, 1, 1000)
                                  THEN "Compressed" ELSE "Processed",
                      new_size |-> new_size]
    IN  With(compress(temps1, IF recompress THEN created ELSE ogg_path, run), AfterTool)

-----------------------------------------------------------------------------
(* optimize_images_v2.py: save_png_with_pngquant, save_png_optimized and   *)
(* optimize_image                                                          *)

\* VITA_HEIGHT / ORIGINAL_HEIGHT, as the fraction it is
IMAGE_SCALE_RATIO == [num |-> 544, den |-> 720]

\* a scaling that keeps the dimension
KeepDim(x) == x

\* int(x * SCALE_RATIO)
ScaleDim(x) == (x * IMAGE_SCALE_RATIO.num) \div IMAGE_SCALE_RATIO.den

\* img.format, which the model reads off the extension
FormatOf(path) ==
    CASE Lower(Splitext(path)) = ".png" -> "PNG"
      [] Lower(Splitext(path)) = ".jpg" -> "JPEG"
      [] OTHER -> "BMP"

\* What the tools do on a call: has is HAS_PNGQUANT; pngquant is the outcome
\* of the pngquant attempt ("ok": return code 0, "rc_fail": another return
\* code, "raise_save": img.save(temp_in) raised, "raise_run": subprocess.run
\* raised); save_ok says that the saves of Pillow into temp_path did not
\* raise; size1 and size2 are the sizes of the first and second save;
\* move_ok says that shutil.move did not raise.
ImageRuns ==
    [has : BOOLEAN, pngquant : {"ok", "rc_fail", "raise_save", "raise_run"},
     save_ok : BOOLEAN, size1 : {60000, 105000}, size2 : {90000, 120000},
     move_ok : BOOLEAN]

\* save_png_with_pngquant(img, temp_path, colors): the temporary directory
\* it leaves and the value it returns
save_png_with_pngquant(temps, temp_path, run) ==
    IF ~run.has THEN [temps |-> temps, ret |-> FALSE]
    ELSE LET temp_in == TempName(temps, ".png")
             temps1 == WriteFile(temps, temp_in, 0)
         IN  IF run.pngquant \in {"raise_save", "raise_run"}
             THEN \* except Exception: return False
                  [temps |-> temps1, ret |-> FALSE]
             ELSE LET written == IF run.pngquant = "ok"
                                 THEN WriteFile(temps1, temp_path, run.size1)
                                 ELSE temps1
                  IN  [temps |-> Remove(written, temp_in),
                       ret |-> run.pngquant = "ok" /\ Exists(written, temp_path)]

\* save_png_optimized(img, temp_path, original_size_mb): the temporary
\* directory it leaves, and whether it raised; its three branches (64, 128
\* and 32 colours) try pngquant and fall back on img.quantize and img_p.save
save_png_optimized(temps, temp_path, run) ==
    With(save_png_with_pngquant(temps, temp_path, run),
         LAMBDA q :
            IF run.has /\ q.ret THEN [temps |-> q.temps, raised |-> FALSE]
            ELSE IF run.save_ok
            THEN [temps |-> WriteFile(q.temps, temp_path, run.size1), raised |-> FALSE]
            ELSE [temps |-> q.temps, raised |-> TRUE])

\* the first save of optimize_image into temp_path, by format
FirstSave(temps, temp_path, format, run) ==
    IF format = "PNG" THEN save_png_optimized(temps, temp_path, run)
    ELSE IF run.save_ok
    THEN [temps |-> WriteFile(temps, temp_path, run.size1), raised |-> FALSE]
    ELSE [temps |-> temps, raised |-> TRUE]

\* optimize_image(image_path): the two file systems it leaves, success, the
\* first word of the message, and the size it measured of the file it saved
\* (NotMeasured when it did not come to measure it)
optimize_image(files, temps, image_path, run) ==
    LET Error(left, measured) == [disk |-> files, temps |-> left,
                                  success |-> FALSE, message |-> "Error",
                                  new_size |-> measured]
    IN
    IF ~Exists(files, image_path) THEN Error(temps, NotMeasured)
    ELSE
    LET original_size == files[image_path].size
        format == FormatOf(image_path)
        old_dims == files[image_path].dims
        new_dims == <<ScaleDim(old_dims[1]), ScaleDim(old_dims[2])>>
        temp_path == TempName(temps, Splitext(image_path))
        temps1 == WriteFile(temps, temp_path, 0)
        \* 'except: if os.path.exists(temp_path): os.remove(temp_path); raise'
        Raised(left, measured) == Error(Remove(left, temp_path), measured)
        \* the path taken when the size is unchanged
        Unchanged(saved) ==
            IF saved.raised THEN Raised(saved.temps, NotMeasured)
            ELSE IF MbMoreThan(original_size, saved.temps[temp_path], 1, 1000)
            THEN IF ~run.move_ok THEN Raised(saved.temps, saved.temps[temp_path])
                 ELSE [disk |-> WriteFile(files, image_path,
                                   [size |-> saved.temps[temp_path], dims |-> old_dims]),
                       temps |-> Remove(saved.temps, temp_path),
                       success |-> TRUE, message |-> "Compressed",
                       new_size |-> saved.temps[temp_path]]
            ELSE [disk |-> files, temps |-> Remove(saved.temps, temp_path),
                  success |-> FALSE, message |-> "Skipped",
                  new_size |-> saved.temps[temp_path]]
        \* the path taken when the image is resized
        Resized(saved) ==
            IF saved.raised THEN Raised(saved.temps, NotMeasured)
            ELSE
            LET size1 == saved.temps[temp_path]
                again == size1 * 100 >= original_size * 99 /\ format \in {"PNG", "JPEG"}
                new_size == IF again THEN run.size2 ELSE size1
                temps2 == WriteFile(saved.temps, temp_path, new_size)
            IN  IF again /\ ~run.save_ok THEN Raised(saved.temps, size1)
                ELSE IF ~run.move_ok THEN Raised(temps2, new_size)
                ELSE [disk |-> WriteFile(files, image_path,
                                  [size |-> new_size, dims |-> new_dims]),
                      temps |-> Remove(temps2, temp_path),
                      success |-> TRUE,
                      message |-> IF original_size > new_size
                                  THEN "Optimized" ELSE "Resized",
                      new_size |-> new_size]
    IN  IF new_dims = old_dims
        THEN IF MbMoreThan(original_size, 0, 5, 100)
             THEN With(FirstSave(temps1, temp_path, format, run), Unchanged)
             ELSE [disk |-> files, temps |-> temps,
                   success |-> FALSE, message |-> "Skipped", new_size |-> NotMeasured]
        ELSE IF new_dims[1] = 0 \/ new_dims[2] = 0
        THEN \* img.resize raises on an empty size
             Error(temps, NotMeasured)
        ELSE With(FirstSave(temps1, temp_path, format, run), Resized)

-----------------------------------------------------------------------------
(* The file systems at the start *)

\* the lines of a sample file picked by the increasing indices in pick
RECURSIVE Pick(_, _)
Pick(sample, pick) ==
    IF pick = {} THEN <<>>
    ELSE LET i == Least(pick) IN sample[i] \o Pick(sample, pick \ {i})

\* the texts made of at most MaxLines lines of a sample file, in the order of
\* the file, in which every line but the last ends with a newline
Selections(sample) ==
    {Pick(sample, pick) : pick \in
        {ps \in SUBSET (1..Len(sample)) :
            /\ Cardinality(ps) <= MaxLines
            /\ \A i \in ps : sample[i][Len(sample[i])] = "\n" \/ \A j \in ps : j <= i}}

GuiTexts == Selections(GuiSample)
ScreensTexts == Selections(ScreensSample)

DefaultGui == Assign("gui.text_size", <<"4", "0">>)
DefaultScreens == <<Indent4, "xsize", " ", "2", "8", "0", "\n">>

NoFiles == [p \in {} |-> <<>>]

\* one file ranges over its texts while the other is missing, or both files
\* hold a fixed text, or both are missing
InitialFileSystems ==
    {NoFiles}
    \cup {[p \in {gui_path} |-> g] : g \in GuiTexts}
    \cup {[p \in {screens_path} |-> t] : t \in ScreensTexts}
    \cup {[p \in {gui_path, screens_path} |->
             IF p = gui_path THEN DefaultGui ELSE DefaultScreens]}

-----------------------------------------------------------------------------
(* The state machine of optimize_gui.py *)

NoMediaCall == [op |-> "none", path |-> <<>>, success |-> FALSE, message |-> "",
                new_size |-> NotMeasured]

\* no media file, and no call on one
MediaIdle ==
    /\ disk = NoMedia
    /\ tempdir = NoMedia
    /\ media_last = NoMediaCall

\* no workflow
NoRunner == [pc |-> "none"]

\* no directory walk
NoWalk == [pc |-> "none"]
NoRemove == [pc |-> "none"]
NoUnpack == [pc |-> "none"]

NoCall == [op |-> "none", auto_restore |-> FALSE, ret |-> 0, ok |-> TRUE]

Init ==
    /\ fs \in InitialFileSystems
    /\ lines_read = NoFiles
    /\ lines_written = NoFiles
    /\ returned = [p \in {} |-> 0]
    /\ original = fs
    /\ last = NoCall
    /\ prev = NoCall
    /\ nruns = 0
    /\ MediaIdle
    /\ runner = NoRunner
    /\ walk = NoWalk
    /\ remove = NoRemove
    /\ unpack = NoUnpack

\* f with f[k] = v
Put(f, k, v) == [x \in DOMAIN f \cup {k} |-> IF x = k THEN v ELSE f[x]]

\* what a call of optimize_file on path, with result r, leaves in the history
Recorded(rd, wr, rt, path, r) ==
    [rd |-> IF r.ret >= 0 THEN Put(rd, path, r.lines) ELSE rd,
     wr |-> IF r.ret >= 0 THEN Put(wr, path, Readlines(Join(r.new_lines))) ELSE wr,
     rt |-> Put(rt, path, r.ret)]

OptimizeGui(auto_restore) ==
    /\ nruns < MaxRuns
    /\ \E r \in {optimize_gui(fs, auto_restore)} :
       \E h \in {Recorded(lines_read, lines_written, returned, gui_path, r.file)} :
           /\ fs' = r.fs
           /\ lines_read' = h.rd
           /\ lines_written' = h.wr
           /\ returned' = h.rt
           /\ last' = [op |-> "optimize_gui",
                       auto_restore |-> auto_restore, ret |-> r.ret, ok |-> r.ret >= 0]
    /\ prev' = last
    /\ nruns' = nruns + 1
    /\ UNCHANGED <<original, not_gui_vars>>

OptimizeScreens(auto_restore) ==
    /\ nruns < MaxRuns
    /\ \E r \in {optimize_screens(fs, auto_restore)} :
       \E h \in {Recorded(lines_read, lines_written, returned, screens_path, r.file)} :
           /\ fs' = r.fs
           /\ lines_read' = h.rd
           /\ lines_written' = h.wr
           /\ returned' = h.rt
           /\ last' = [op |-> "optimize_screens",
                       auto_restore |-> auto_restore, ret |-> r.ret, ok |-> r.ret >= 0]
    /\ prev' = last
    /\ nruns' = nruns + 1
    /\ UNCHANGED <<original, not_gui_vars>>

\* optimize_gui.py run as a program: main() and the exit code
Main(auto_restore) ==
    /\ nruns < MaxRuns
    /\ \E r \in {main(fs, auto_restore)} :
       \E g \in {Recorded(lines_read, lines_written, returned, gui_path, r.gui.file)} :
       \E h \in {IF r.ran_screens
                  THEN Recorded(g.rd, g.wr, g.rt, screens_path, r.screens.file)
                  ELSE g} :
           /\ fs' = r.fs
           /\ lines_read' = h.rd
           /\ lines_written' = h.wr
           /\ returned' = h.rt
           /\ last' = [op |-> "main", auto_restore |-> auto_restore,
                       ret |-> IF r.ran_screens THEN r.screens.ret ELSE r.gui.ret,
                       ok |-> r.ok, exit |-> ExitCode("optimize_gui.py", r.ok)]
    /\ prev' = last
    /\ nruns' = nruns + 1
    /\ UNCHANGED <<original, not_gui_vars>>

Next ==
    \/ \E auto_restore \in BOOLEAN : OptimizeGui(auto_restore)
    \/ \E auto_restore \in BOOLEAN : OptimizeScreens(auto_restore)
    \/ \E auto_restore \in BOOLEAN : Main(auto_restore)

Spec == Init /\ [][Next]_vars

-----------------------------------------------------------------------------
(* optimize_gui.py on the edge samples, with add_scroll_to_say_screen       *)
(* called on its own as well                                               *)

\* one file holds a text of its edge sample while the other is missing
EdgeFileSystems ==
    {[p \in {gui_path} |-> g] : g \in Selections(GuiEdgeSample)}
    \cup {[p \in {screens_path} |-> t] : t \in Selections(ScreensEdgeSample)}

EdgeInit ==
    /\ fs \in EdgeFileSystems
    /\ lines_read = NoFiles
    /\ lines_written = NoFiles
    /\ returned = [p \in {} |-> 0]
    /\ original = fs
    /\ last = NoCall
    /\ prev = NoCall
    /\ nruns = 0
    /\ MediaIdle
    /\ runner = NoRunner
    /\ walk = NoWalk
    /\ remove = NoRemove
    /\ unpack = NoUnpack

\* add_scroll_to_say_screen(screens_path), called on its own; open() raises
\* when the file is missing, which the record keeps as ok = FALSE
AddScroll ==
    /\ nruns < MaxRuns
    /\ IF Exists(fs, screens_path)
       THEN \E r \in {add_scroll_to_say_screen(fs, screens_path)} :
               /\ fs' = r.fs
               /\ last' = [op |-> "add_scroll", auto_restore |-> FALSE,
                           ret |-> r.ret, ok |-> TRUE]
       ELSE /\ fs' = fs
            /\ last' = [op |-> "add_scroll", auto_restore |-> FALSE,
                        ret |-> 0, ok |-> FALSE]
    /\ prev' = last
    /\ nruns' = nruns + 1
    /\ UNCHANGED <<lines_read, lines_written, returned, original, not_gui_vars>>

EdgeNext ==
    \/ \E auto_restore \in BOOLEAN : OptimizeGui(auto_restore)
    \/ \E auto_restore \in BOOLEAN : OptimizeScreens(auto_restore)
    \/ \E auto_restore \in BOOLEAN : Main(auto_restore)
    \/ AddScroll

EdgeSpec == EdgeInit /\ [][EdgeNext]_vars

-----------------------------------------------------------------------------
(* The state machine of optimize_audio.py and optimize_images_v2.py *)

AudioPaths == {<<"a", ".wav">>, <<"A", ".WAV">>, <<"b", ".mp3">>, <<"c", ".ogg">>}
ImagePaths == {<<"p", ".png">>, <<"q", ".jpg">>, <<"r", ".bmp">>}

\* a media file at the start: 100000 bytes; an image is 4 by 2 pixels
InitialFile(path) ==
    [size |-> 100000, dims |-> IF path \in ImagePaths THEN <<4, 2>> ELSE <<0, 0>>]

\* no target file, and no call of optimize_gui.py
GuiIdle ==
    /\ fs = NoFiles
    /\ lines_read = NoFiles
    /\ lines_written = NoFiles
    /\ returned = [p \in {} |-> 0]
    /\ original = NoFiles
    /\ last = NoCall
    /\ prev = NoCall

MediaInit ==
    /\ \E present \in {ps \in SUBSET (AudioPaths \cup ImagePaths) :
                          Cardinality(ps) <= MaxFiles} :
          disk = [p \in present |-> InitialFile(p)]
    /\ tempdir = NoMedia
    /\ media_last = NoMediaCall
    /\ GuiIdle
    /\ nruns = 0
    /\ runner = NoRunner
    /\ walk = NoWalk
    /\ remove = NoRemove
    /\ unpack = NoUnpack

gui_vars == <<fs, lines_read, lines_written, returned, original, last, prev>>
\* the variables of the other scripts, which the media optimizers leave alone
not_media_vars == <<gui_vars, runner, walk, remove, unpack>>

OptimizeAudio(audio_path, run) ==
    /\ nruns < MaxMediaRuns
    /\ \E r \in {optimize_audio(disk, tempdir, audio_path, run)} :
          /\ disk' = r.disk
          /\ tempdir' = r.temps
          /\ media_last' = [op |-> "optimize_audio", path |-> audio_path,
                            success |-> r.success, message |-> r.message,
                            new_size |-> r.new_size]
    /\ nruns' = nruns + 1
    /\ UNCHANGED not_media_vars

OptimizeImage(image_path, run) ==
    /\ nruns < MaxMediaRuns
    /\ \E r \in {optimize_image(disk, tempdir, image_path, run)} :
          /\ disk' = r.disk
          /\ tempdir' = r.temps
          /\ media_last' = [op |-> "optimize_image", path |-> image_path,
                            success |-> r.success, message |-> r.message,
                            new_size |-> r.new_size]
    /\ nruns' = nruns + 1
    /\ UNCHANGED not_media_vars

MediaNext ==
    \/ \E audio_path \in AudioPaths, run \in FfmpegRuns : OptimizeAudio(audio_path, run)
    \/ \E image_path \in ImagePaths, run \in ImageRuns : OptimizeImage(image_path, run)

MediaSpec == MediaInit /\ [][MediaNext]_vars

-----------------------------------------------------------------------------
(* run_lossless_w_gui.py and run_true_lossless.py: run_script and main.    *)
(* The runner is at "loop" (the head of 'for script in scripts'), at        *)
(* "launch" (run_script found the script and is about to start it), at      *)
(* "running" (subprocess.run waits for the child), at "after" (behind the   *)
(* loop), at "returned" (main returned) or at "exited" (sys.exit).          *)

run_lossless_w_gui == <<"unpack_and_decompile.py", "remove_op.py",
                        "optimize_gui.py", "optimize_images.py">>
run_true_lossless == <<"unpack_and_decompile.py", "remove_op.py">>

\* how the main of a child script ends: it returns True or False, or raises
ChildOutcomes == {"true", "false", "raise"}

\* the exit code of a child: that of its __main__ block, or the 1 of the
\* interpreter when an exception escapes
ChildExitCode(script, outcome) ==
    IF outcome = "raise" THEN 1 ELSE ExitCode(script, outcome = "true")

\* the loop of main that goes on after a stage that failed
AfterStageGoesOn(r, ok) ==
    LET next == [r EXCEPT !.success_count = @ + (IF ok THEN 1 ELSE 0),
                          !.fail_count = @ + (IF ok THEN 0 ELSE 1),
                          !.i = @ + 1]
    IN  [next EXCEPT !.pc = IF next.i > Len(r.scripts) THEN "after" ELSE "loop"]

\* the body of 'for script in scripts' once run_script returned ok: the
\* counters, and the break on a failure
AfterStage(r, ok) ==
    IF ok
    THEN [r EXCEPT !.success_count = @ + 1,
                   !.i = @ + 1,
                   !.pc = IF r.i + 1 > Len(r.scripts) THEN "after" ELSE "loop"]
    ELSE [r EXCEPT !.fail_count = @ + 1, !.pc = "after"]

RunnerInit ==
    /\ \E scripts \in {run_lossless_w_gui, run_true_lossless} :
          runner = [pc |-> "loop", scripts |-> scripts, i |-> 1,
                    success_count |-> 0, fail_count |-> 0,
                    log |-> <<>>, refused |-> <<>>,
                    result |-> FALSE, exit |-> 0]
    /\ GuiIdle
    /\ MediaIdle
    /\ nruns = 0
    /\ walk = NoWalk
    /\ remove = NoRemove
    /\ unpack = NoUnpack

not_runner_vars == <<gui_vars, media_vars, nruns, walk, remove, unpack>>

\* run_script: 'if not script_path.exists(): return False'
CheckScript(exists) ==
    /\ runner.pc = "loop"
    /\ runner' = IF exists THEN [runner EXCEPT !.pc = "launch"]
                 ELSE AfterStage([runner EXCEPT !.refused =
                                     Append(@, [script |-> runner.scripts[runner.i],
                                                why |-> "missing"])],
                                 FALSE)
    /\ UNCHANGED not_runner_vars

\* run_script: subprocess.run starts the child, or raises before it does
Launch(started) ==
    /\ runner.pc = "launch"
    /\ runner' = IF started
                 THEN [runner EXCEPT !.pc = "running",
                                     !.log = Append(@, [script |-> runner.scripts[runner.i],
                                                        finished |-> FALSE,
                                                        outcome |-> "", exit |-> 0])]
                 ELSE AfterStage([runner EXCEPT !.refused =
                                     Append(@, [script |-> runner.scripts[runner.i],
                                                why |-> "launch"])],
                                 FALSE)
    /\ UNCHANGED not_runner_vars

\* run_script: the child ends; check=True turns a non-zero return code into
\* CalledProcessError, for which run_script returns False
ChildExit(outcome) ==
    /\ runner.pc = "running"
    /\ LET script == runner.scripts[runner.i]
           code == ChildExitCode(script, outcome)
           logged == [runner EXCEPT !.log[Len(runner.log)] =
                         [script |-> script, finished |-> TRUE,
                          outcome |-> outcome, exit |-> code]]
       IN  runner' = AfterStage(logged, code = 0)
    /\ UNCHANGED not_runner_vars

\* main: 'return fail_count == 0'
RunnerReturn ==
    /\ runner.pc = "after"
    /\ runner' = [runner EXCEPT !.pc = "returned", !.result = (runner.fail_count = 0)]
    /\ UNCHANGED not_runner_vars

\* __main__: sys.exit(0 if success else 1)
RunnerExit ==
    /\ runner.pc = "returned"
    /\ runner' = [runner EXCEPT !.pc = "exited",
                                !.exit = ExitCode("run_lossless_w_gui.py", runner.result)]
    /\ UNCHANGED not_runner_vars

RunnerNext ==
    \/ \E exists \in BOOLEAN : CheckScript(exists)
    \/ \E started \in BOOLEAN : Launch(started)
    \/ \E outcome \in ChildOutcomes : ChildExit(outcome)
    \/ RunnerReturn
    \/ RunnerExit

RunnerSpec == RunnerInit /\ [][RunnerNext]_vars

-----------------------------------------------------------------------------
(* optimize_images.py: optimize_image *)

\* What Pillow does on a call: save is the outcome of resized_img.save on
\* the image's own path ("ok", "raise_before": it raised before it opened the
\* file, "raise_partial": it raised after it had begun to write); size is
\* the size of the file it wrote
SaveRuns == [save : {"ok", "raise_before", "raise_partial"}, size : {60000, 105000}]

\* optimize_image(image_path) of optimize_images.py: the file system it
\* leaves, success and the first word of the message
optimize_image_v1(files, image_path, run) ==
    IF ~Exists(files, image_path)
    THEN [disk |-> files, success |-> FALSE, message |-> "Error"]
    ELSE
    LET old_dims == files[image_path].dims
        new_dims == <<ScaleDim(old_dims[1]), ScaleDim(old_dims[2])>>
    IN  IF new_dims = old_dims
        THEN [disk |-> files, success |-> FALSE, message |-> "Skipped"]
        ELSE IF new_dims[1] = 0 \/ new_dims[2] = 0
        THEN \* img.resize raises on an empty size
             [disk |-> files, success |-> FALSE, message |-> "Error"]
        ELSE IF run.save = "raise_before"
        THEN [disk |-> files, success |-> FALSE, message |-> "Error"]
        ELSE IF run.save = "raise_partial"
        THEN [disk |-> WriteFile(files, image_path, [size |-> 0, dims |-> <<0, 0>>]),
              success |-> FALSE, message |-> "Error"]
        ELSE [disk |-> WriteFile(files, image_path,
                          [size |-> run.size, dims |-> new_dims]),
              success |-> TRUE, message |-> "Optimized"]

-----------------------------------------------------------------------------
(* process_directory and main of optimize_images.py, optimize_images_v2.py  *)
(* and optimize_audio.py.  The walk is at "start" (main begins), at         *)
(* "walking" (in the loops of process_directory), at "returned" (main       *)
(* returned) or at "exited" (sys.exit).  The totals of saved and increased  *)
(* megabytes, which are only printed, are left out.                         *)

WalkScripts == {"optimize_images.py", "optimize_images_v2.py", "optimize_audio.py"}

\* supported_formats of a script
supported_formats(script) ==
    IF script = "optimize_audio.py"
    THEN {".mp3", ".ogg", ".wav", ".flac", ".m4a", ".aac"}
    ELSE {".png", ".jpg", ".jpeg", ".bmp", ".webp"}

\* the text of the message whose first word an optimizer returned, for path
MessageText(message, path) ==
    IF message = "failed" THEN <<"Compression ", "failed", ": ">> \o path
    ELSE IF message = "Error" THEN <<"Error", " processing ">> \o path \o <<": ", "..." >>
    ELSE <<message, ": ">> \o path

\* counters that know successes and errors only
CountWithoutSkipped(script, c, success, message) ==
    IF success THEN [c EXCEPT !.processed = @ + 1]
    ELSE IF Contains(message, <<"Error">>) THEN [c EXCEPT !.errors = @ + 1]
    ELSE c

\* process_directory: 'if success: ... elif "Skipped" in message: ... elif
\* "Error" in message: ...' (optimize_audio.py: '... or "failed" in message')
Count(script, c, success, message) ==
    IF success THEN [c EXCEPT !.processed = @ + 1]
    ELSE IF Contains(message, <<"Skipped">>) THEN [c EXCEPT !.skipped = @ + 1]
    ELSE IF \/ Contains(message, <<"Error">>)
            \/ script = "optimize_audio.py" /\ Contains(message, <<"failed">>)
    THEN [c EXCEPT !.errors = @ + 1]
    ELSE c

\* a tolerance that accepts an error rate of exactly one tenth
MainSuccessUpTo(script, c) ==
    IF script = "optimize_images_v2.py"
    THEN c.errors * 10 <= c.processed + c.skipped + c.errors
    ELSE c.errors = 0

\* what main returns after the walk: 'return total_errors == 0', and in
\* optimize_images_v2.py 'error_rate = total_errors / total_processed if
\* total_processed > 0 else 0; success = error_rate < 0.10'
MainSuccess(script, c) ==
    IF script = "optimize_images_v2.py"
    THEN LET total_processed == c.processed + c.skipped + c.errors
         IN  IF total_processed > 0 THEN c.errors * 10 < total_processed ELSE TRUE
    ELSE c.errors = 0

\* the names the walk may meet: media files, names that hold the words the
\* counters look for, and a file that is no media file
WalkNames == {<<"a", ".wav">>, <<"A", ".WAV">>, <<"b", ".mp3">>, <<"p", ".png">>,
              <<"Skipped", ".png">>, <<"Error", ".jpg">>, <<"failed", ".ogg">>,
              <<"notes", ".txt">>}

\* the outcome of the optimizer of script on one file of the walk: success
\* and the text of the message
Attempt(script, path, dims, run) ==
    LET files == [p \in {path} |-> [size |-> 100000, dims |-> dims]]
        r == IF script = "optimize_audio.py"
             THEN optimize_audio(files, NoMedia, path, run)
             ELSE IF script = "optimize_images_v2.py"
             THEN optimize_image(files, NoMedia, path, run)
             ELSE optimize_image_v1(files, path, run)
    IN  [success |-> r.success, message |-> MessageText(r.message, path)]

\* what the tools may do on a file of the walk
RunsOf(script, has_tool) ==
    IF script = "optimize_audio.py" THEN {e \in FfmpegRuns : e.has = has_tool}
    ELSE IF script = "optimize_images_v2.py" THEN {e \in ImageRuns : e.has = has_tool}
    ELSE SaveRuns

NoCounts == [processed |-> 0, skipped |-> 0, errors |-> 0]

WalkInit ==
    /\ \E script \in WalkScripts, has_tool \in BOOLEAN, dir_exists \in BOOLEAN :
          walk = [pc |-> "start", script |-> script, has_tool |-> has_tool,
                  dir_exists |-> dir_exists, met |-> 0, found |-> 0,
                  counts |-> NoCounts, success |-> FALSE, exit |-> 0]
    /\ GuiIdle
    /\ MediaIdle
    /\ nruns = 0
    /\ runner = NoRunner
    /\ remove = NoRemove
    /\ unpack = NoUnpack

not_walk_vars == <<gui_vars, media_vars, nruns, runner, remove, unpack>>

\* main up to the walk: optimize_audio.py returns False without ffmpeg or
\* without its directory; the image optimizers skip a missing directory
WalkStart ==
    /\ walk.pc = "start"
    /\ walk' = IF walk.script = "optimize_audio.py"
                  /\ (~walk.has_tool \/ ~walk.dir_exists)
               THEN [walk EXCEPT !.pc = "returned", !.success = FALSE]
               ELSE IF ~walk.dir_exists
               THEN [walk EXCEPT !.pc = "returned",
                                 !.success = MainSuccess(walk.script, walk.counts)]
               ELSE [walk EXCEPT !.pc = "walking"]
    /\ UNCHANGED not_walk_vars

\* process_directory: one file of os.walk
WalkFile(path, dims, run) ==
    /\ walk.pc = "walking"
    /\ walk.met < MaxWalk
    /\ walk' = IF Lower(Splitext(path)) \in supported_formats(walk.script)
               THEN With(Attempt(walk.script, path, dims, run), LAMBDA a :
                       [walk EXCEPT !.met = @ + 1, !.found = @ + 1,
                                    !.counts = Count(walk.script, @, a.success, a.message)])
               ELSE [walk EXCEPT !.met = @ + 1]
    /\ UNCHANGED not_walk_vars

\* the walk ends and main returns
WalkReturn ==
    /\ walk.pc = "walking"
    /\ walk' = [walk EXCEPT !.pc = "returned",
                            !.success = MainSuccess(walk.script, walk.counts)]
    /\ UNCHANGED not_walk_vars

\* __main__: sys.exit(0 if success else 1)
WalkExit ==
    /\ walk.pc = "returned"
    /\ walk' = [walk EXCEPT !.pc = "exited",
                            !.exit = ExitCode(walk.script, walk.success)]
    /\ UNCHANGED not_walk_vars

WalkNext ==
    \/ WalkStart
    \/ \E path \in WalkNames, dims \in {<<4, 2>>, <<1, 1>>},
          run \in RunsOf(walk.script, walk.has_tool) : WalkFile(path, dims, run)
    \/ WalkReturn
    \/ WalkExit

WalkSpec == WalkInit /\ [][WalkNext]_vars

-----------------------------------------------------------------------------
(* Repeated runs of the image optimizers on one image *)

\* the dimensions of the image at the start
StartDims == {<<1280, 720>>, <<960, 544>>, <<3, 2>>, <<2, 2>>, <<1, 5>>}

ScaleInit ==
    /\ \E image_path \in ImagePaths, dims \in StartDims :
          disk = [p \in {image_path} |-> [size |-> 100000, dims |-> dims]]
    /\ tempdir = NoMedia
    /\ media_last = NoMediaCall
    /\ GuiIdle
    /\ nruns = 0
    /\ runner = NoRunner
    /\ walk = NoWalk
    /\ remove = NoRemove
    /\ unpack = NoUnpack

\* optimize_image of optimize_images.py on a file of the project
OptimizeImageV1(image_path, run) ==
    /\ nruns < MaxMediaRuns
    /\ \E r \in {optimize_image_v1(disk, image_path, run)} :
          /\ disk' = r.disk
          /\ media_last' = [op |-> "optimize_image_v1", path |-> image_path,
                            success |-> r.success, message |-> r.message,
                            new_size |-> NotMeasured]
    /\ nruns' = nruns + 1
    /\ UNCHANGED <<tempdir, not_media_vars>>

ScaleNext ==
    \/ \E image_path \in ImagePaths, run \in SaveRuns : OptimizeImageV1(image_path, run)
    \/ \E image_path \in ImagePaths, run \in ImageRuns : OptimizeImage(image_path, run)

ScaleSpec == ScaleInit /\ [][ScaleNext]_vars

-----------------------------------------------------------------------------
(* remove_op.py: comment_webm_lines, uncomment_webm_lines, delete_webm_files *)
(* and main.  A line is a sequence of atoms: the characters "#", "$", "(",  *)
(* ")", " " and "\n", indentations, and words that hold none of them.       *)

\* 'movie_cutscene' in line or 'Video' in line or 'Movie' in line
HasKeyword(line) ==
    \E i \in 1..Len(line) : line[i] \in {"renpy.movie_cutscene", "Movie", "Video"}

\* \.webm under re.IGNORECASE
IsWebm(a) == a \in {".webm", ".WEBM"}

\* the last index of line that "." of the re module matches
BodyEnd(line) ==
    IF line # <<>> /\ line[Len(line)] = "\n" THEN Len(line) - 1 ELSE Len(line)

\* line.lstrip().startswith('#')
IsComment(line) ==
    LET i == SkipSpace(line, 1) IN i <= Len(line) /\ line[i] = "#"

\* movie_pattern.match(line), for
\* ^(\s*)((\$|python:\s*)?\s*renpy\.movie_cutscene\s*\(.*\.webm.*\)):
\* the index where group 2 begins and the index where it ends (the last ")"
\* that has a ".webm" between the "(" and itself), or <<>> for None
MovieMatch(line) ==
    LET n == Len(line)
        At(i, a) == i <= n /\ line[i] = a
        i1 == SkipSpace(line, 1)
        i2 == IF At(i1, "$") THEN i1 + 1
              ELSE IF At(i1, "python:") THEN SkipSpace(line, i1 + 1)
              ELSE i1
        i3 == SkipSpace(line, i2)
        i4 == SkipSpace(line, i3 + 1)
        closes == {k \in (i4 + 1)..BodyEnd(line) :
                      /\ line[k] = ")"
                      /\ \E j \in (i4 + 1)..(k - 1) : IsWebm(line[j])}
    IN  IF At(i3, "renpy.movie_cutscene") /\ At(i4, "(") /\ closes # {}
        THEN <<i1, CHOOSE k \in closes : \A j \in closes : j <= k>>
        ELSE <<>>

\* webm_pattern.match(line), for ^(\s*)([^#\n]*\.webm): a ".webm" with no
\* "#" before it
WebmMatch(line) ==
    \E j \in 1..BodyEnd(line) :
        /\ IsWebm(line[j])
        /\ \A k \in 1..(j - 1) : line[k] # "#"

\* the body of the loop of comment_webm_lines: the line it appends and
\* whether it counted the line as commented
CommentLine(line) ==
    IF IsComment(line) THEN [line |-> line, hit |-> FALSE]
    ELSE With(MovieMatch(line), LAMBDA m :
        IF m # <<>>
        THEN \* f"{indent}# {code}\n"
             [line |-> SubSeq(line, 1, m[1] - 1) \o <<"#", " ">>
                         \o SubSeq(line, m[1], m[2]) \o <<"\n">>,
              hit |-> TRUE]
        ELSE IF WebmMatch(line) /\ HasKeyword(line)
        THEN \* f"# {line}"
             [line |-> <<"#", " ">> \o line, hit |-> TRUE]
        ELSE [line |-> line, hit |-> FALSE])

\* the body of the loop of uncomment_webm_lines, for the pattern
\* ^(\s*)#\s*(.*\.webm.*): the line it appends and whether it counted it
UncommentLine(line) ==
    LET i1 == SkipSpace(line, 1)
        i2 == SkipSpace(line, i1 + 1)
    IN  IF /\ IsComment(line)
           /\ \E j \in i2..BodyEnd(line) : IsWebm(line[j])
           /\ HasKeyword(line)
        THEN \* f"{indent}{code}\n"
             [line |-> SubSeq(line, 1, i1 - 1) \o SubSeq(line, i2, BodyEnd(line))
                         \o <<"\n">>,
              hit |-> TRUE]
        ELSE [line |-> line, hit |-> FALSE]

\* what the file system does on a call: "ok", or open(rpy_file, 'r') raises,
\* or open(rpy_file, 'w') raises
IoRuns == {"ok", "read_fails", "write_fails"}

\* what comment_webm_lines and uncomment_webm_lines (uncomment) share: read
\* the file, run the body of the loop on every line of
\* content.splitlines(keepends=True), and 'if modified and not dry_run:'
\* write the new lines; the content the file has afterwards, and the pair
\* (modified, error) returned
Rewrite(content, dry_run, io, uncomment) ==
    IF io = "read_fails" THEN [content |-> content, modified |-> FALSE, error |-> TRUE]
    ELSE With([i \in 1..Len(Readlines(content)) |->
                  IF uncomment THEN UncommentLine(Readlines(content)[i])
                  ELSE CommentLine(Readlines(content)[i])],
              LAMBDA done :
        LET modified == \E i \in 1..Len(done) : done[i].hit
            new_lines == [i \in 1..Len(done) |-> done[i].line]
        IN  IF modified /\ ~dry_run
            THEN IF io = "write_fails"
                 THEN [content |-> content, modified |-> FALSE, error |-> TRUE]
                 ELSE [content |-> Join(new_lines), modified |-> TRUE, error |-> FALSE]
            ELSE [content |-> content, modified |-> modified, error |-> FALSE])

\* a comment_webm_lines that writes in a preview too
comment_webm_lines_written(content, dry_run, io) == Rewrite(content, FALSE, io, FALSE)

comment_webm_lines(content, dry_run, io) == Rewrite(content, dry_run, io, FALSE)

uncomment_webm_lines(content, dry_run, io) == Rewrite(content, dry_run, io, TRUE)

\* delete_webm_files(webm_files, dry_run=False): the files that are left;
\* unlink_ok says that webm_path.unlink() did not raise
delete_webm_files(webm_files, unlink_ok) == IF unlink_ok THEN {} ELSE webm_files

\* the lines a script of the project is made of
RpySample ==
    << <<Indent4, "$", " ", "renpy.movie_cutscene", "(", "'op", ".webm", "'", ")", "\n">>,
       <<Indent4, "$", " ", "renpy.movie_cutscene", "(", "'op", ".webm", "'", ")",
         " ", "#", " ", "intro", "\n">>,
       <<"#", " ", "$", " ", "renpy.movie_cutscene", "(", "'op", ".webm", "'", ")", "\n">>,
       <<Indent4, "image op = ", "Movie", "(", "'op", ".webm", "'", ")", "\n">>,
       <<"image op = ", "Movie", "(", "'op", ".webm", "'", ")", "\n">>,
       <<"label start:", "\n">>,
       <<"#", " ", "see ", "'op", ".webm", "'", "\n">>,
       <<"$", " ", "renpy.movie_cutscene", "(", "'op", ".webm", "'", ")">> >>

rpy_path == "game/script.rpy"
webm_path == "game/op.webm"

\* main(), with the arguments of the command line: the project it leaves and
\* the value it returns
remove_op_main(scripts, webm_files, dry_run, restore, scan_only, io, unlink_ok) ==
    IF scan_only
    THEN [scripts |-> scripts, webm |-> webm_files, ret |-> TRUE, modified_files |-> {}]
    ELSE With([p \in DOMAIN scripts |->
                  IF restore THEN uncomment_webm_lines(scripts[p], dry_run, io)
                  ELSE comment_webm_lines(scripts[p], dry_run, io)],
              LAMBDA done :
        LET has_error == \E p \in DOMAIN done : done[p].error
            left == IF ~restore /\ webm_files # {} /\ ~dry_run
                    THEN delete_webm_files(webm_files, unlink_ok)
                    ELSE webm_files
        IN  [scripts |-> [p \in DOMAIN scripts |-> done[p].content],
             webm |-> left,
             \* 'if len(deleted) != len(webm_files): has_error = True'
             ret |-> ~(has_error \/ (left # {} /\ ~restore /\ ~dry_run)),
             modified_files |-> {p \in DOMAIN done : ~done[p].error /\ done[p].modified}])

NoRemoveCall == [op |-> "none"]

RemoveInit ==
    /\ \E text \in Selections(RpySample), webm_files \in SUBSET {webm_path} :
          remove = [pc |-> "idle",
                    scripts |-> [p \in {rpy_path} |-> text],
                    webm |-> webm_files,
                    before |-> [p \in {rpy_path} |-> text],
                    mid |-> [p \in {rpy_path} |-> text],
                    prev |-> NoRemoveCall, last |-> NoRemoveCall, n |-> 0]
    /\ GuiIdle
    /\ MediaIdle
    /\ nruns = 0
    /\ runner = NoRunner
    /\ walk = NoWalk
    /\ unpack = NoUnpack

not_remove_vars == <<gui_vars, media_vars, nruns, runner, walk, unpack>>

\* remove_op.py run as a program; last and prev are this run and the one
\* before it, mid and before the project's scripts at the start of each
RemoveOp(dry_run, restore, scan_only, io, unlink_ok) ==
    /\ remove.pc = "idle"
    /\ remove.n < MaxRemoveRuns
    /\ \E r \in {remove_op_main(remove.scripts, remove.webm, dry_run, restore,
                                scan_only, io, unlink_ok)} :
          remove' = [remove EXCEPT
                        !.scripts = r.scripts,
                        !.webm = r.webm,
                        !.before = IF remove.n = 0 THEN @ ELSE remove.mid,
                        !.mid = remove.scripts,
                        !.n = @ + 1,
                        !.prev = remove.last,
                        !.last = [op |-> "main", dry_run |-> dry_run,
                                  restore |-> restore, scan_only |-> scan_only,
                                  ret |-> r.ret, modified_files |-> r.modified_files,
                                  exit |-> ExitCode("remove_op.py", r.ret)]]
    /\ UNCHANGED not_remove_vars

RemoveNext ==
    \E dry_run \in BOOLEAN, restore \in BOOLEAN, scan_only \in BOOLEAN,
       io \in IoRuns, unlink_ok \in BOOLEAN :
          RemoveOp(dry_run, restore, scan_only, io, unlink_ok)

RemoveSpec == RemoveInit /\ [][RemoveNext]_vars

-----------------------------------------------------------------------------
(* unpack_and_decompile.py: main and its four steps.  A file of game/ is a  *)
(* pair of a stem and an extension.  The run is at "start", in one of the   *)
(* loops of the four steps (with the files the loop has still to visit), at *)
(* "returned" or at "exited".                                               *)

\* the steps in another order: the archives are deleted before the scripts
\* are decompiled
StepsDeletingFirst == <<"unpack", "delete_rpa", "decompile", "delete_rpyc">>

\* Step 1/4 to Step 4/4 of main
Steps == <<"unpack", "decompile", "delete_rpa", "delete_rpyc">>

\* the extension a step looks for: find_rpa_files and find_rpyc_files
Sought(step) == IF step \in {"unpack", "delete_rpa"} THEN ".rpa" ELSE ".rpyc"

\* Path(game_dir).rglob("*" + ext)
Find(files, ext) == {f \in files : f[2] = ext}

\* main from the k-th step on, over the files under game/: the first step
\* that finds a file and the files it found, or the return of main
RECURSIVE Enter(_, _, _)
Enter(u, k, files) ==
    IF k > Len(Steps)
    THEN [u EXCEPT !.pc = "returned", !.todo = {}, !.ret = ~u.has_error,
                   !.files = files, !.k = k]
    ELSE IF Find(files, Sought(Steps[k])) = {}
    THEN Enter(u, k + 1, files)
    ELSE [u EXCEPT !.pc = Steps[k], !.k = k, !.files = files,
                   !.todo = Find(files, Sought(Steps[k]))]

\* the loop of a step after it visited f: the next file, or the next step
Visited(u, f, files) ==
    IF u.todo \ {f} # {}
    THEN [u EXCEPT !.todo = @ \ {f}, !.files = files]
    ELSE Enter(u, u.k + 1, files)

\* the files under game/ at the start, and what an archive may hold
GameFiles == {<<"archive", ".rpa">>, <<"extra", ".rpa">>, <<"script", ".rpyc">>,
              <<"script", ".rpy">>}
Packed == {{}, {<<"inner", ".rpyc">>}, {<<"inner", ".rpa">>}}

UnpackInit ==
    /\ \E files \in SUBSET GameFiles :
          unpack = [pc |-> "start", files |-> files, todo |-> {}, k |-> 0,
                    has_error |-> FALSE, delete_raised |-> FALSE,
                    succeeded |-> {}, log |-> <<>>, ret |-> FALSE, exit |-> 0]
    /\ GuiIdle
    /\ MediaIdle
    /\ nruns = 0
    /\ runner = NoRunner
    /\ walk = NoWalk
    /\ remove = NoRemove

not_unpack_vars == <<gui_vars, media_vars, nruns, runner, walk, remove>>

\* main up to Step 1/4: it returns False when a dependency is missing and is
\* not installed, or when game/ does not exist
UnpackStart(deps_ok, game_exists) ==
    /\ unpack.pc = "start"
    /\ unpack' = IF ~deps_ok \/ ~game_exists
                 THEN [unpack EXCEPT !.pc = "returned", !.ret = FALSE]
                 ELSE Enter(unpack, 1, unpack.files)
    /\ UNCHANGED not_unpack_vars

\* Step 1/4 on one archive: extract_rpa returns True (and the files of the
\* archive are under game/) or False; succeeded keeps the files whose unpack
\* or decompile returned True
ExtractRpa(f, ok, packed) ==
    /\ unpack.pc = "unpack"
    /\ f \in unpack.todo
    /\ unpack' = Visited([unpack EXCEPT !.log = Append(@, <<"unpack", f>>),
                                        !.has_error = @ \/ ~ok,
                                        !.succeeded = IF ok THEN @ \cup {f} ELSE @],
                         f, IF ok THEN unpack.files \cup packed ELSE unpack.files)
    /\ UNCHANGED not_unpack_vars

\* Step 2/4 on one compiled script: decompile_rpyc returns True (unrpyc
\* wrote the .rpy, or said that it already exists) or False
DecompileRpyc(f, outcome) ==
    /\ unpack.pc = "decompile"
    /\ f \in unpack.todo
    /\ unpack' = Visited([unpack EXCEPT !.log = Append(@, <<"decompile", f>>),
                                        !.has_error = @ \/ outcome = "fail",
                                        !.succeeded = IF outcome # "fail" THEN @ \cup {f}
                                                      ELSE @],
                         f, IF outcome = "ok" THEN unpack.files \cup {<<f[1], ".rpy">>}
                            ELSE unpack.files)
    /\ UNCHANGED not_unpack_vars

\* Step 3/4 and Step 4/4 on one file: os.remove(f), which may raise
DeleteFile(f, remove_ok) ==
    /\ unpack.pc \in {"delete_rpa", "delete_rpyc"}
    /\ f \in unpack.todo
    /\ unpack' = Visited([unpack EXCEPT !.log = Append(@, <<unpack.pc, f>>),
                                        !.delete_raised = @ \/ ~remove_ok],
                         f, IF remove_ok THEN unpack.files \ {f} ELSE unpack.files)
    /\ UNCHANGED not_unpack_vars

\* __main__: sys.exit(0 if success else 1)
UnpackExit ==
    /\ unpack.pc = "returned"
    /\ unpack' = [unpack EXCEPT !.pc = "exited",
                                !.exit = ExitCode("unpack_and_decompile.py", unpack.ret)]
    /\ UNCHANGED not_unpack_vars

UnpackNext ==
    \/ \E deps_ok \in BOOLEAN, game_exists \in BOOLEAN : UnpackStart(deps_ok, game_exists)
    \/ \E f \in GameFiles \cup UNION Packed, ok \in BOOLEAN, packed \in Packed :
          ExtractRpa(f, ok, packed)
    \/ \E f \in GameFiles \cup UNION Packed, outcome \in {"ok", "exists", "fail"} :
          DecompileRpyc(f, outcome)
    \/ \E f \in GameFiles \cup UNION Packed, remove_ok \in BOOLEAN : DeleteFile(f, remove_ok)
    \/ UnpackExit

UnpackSpec == UnpackInit /\ [][UnpackNext]_vars

-----------------------------------------------------------------------------
(* optimize_snow.py.  The text of snowblossom.rpy is a sequence of atoms,   *)
(* one for each stretch of text the script never looks into; spacing that   *)
(* tells an old text from a new one is part of the atom.                    *)

MaxSnowRuns == 2

snow_path == "game/snowblossom.rpy"

\* 'max_particles=50' and 'max_particles=25'
MaxParticlesOld == <<"max_particles=", "5", "0">>
MaxParticlesNew == <<"max_particles=", "2", "5">>

\* 'self.depth = kwargs.get("depth", 10)' and the same with 5
DepthOld == <<"self.depth = kwargs.get(\"depth\", ", "10)">>
DepthNew == <<"self.depth = kwargs.get(\"depth\", ", "5)">>

old_image_init == <<"self.image = self.image_init(image)">>
new_image_init ==
    old_image_init \o
    <<"\n\n# PSVita optimization: cache screen size to avoid per-frame config access\n",
      "self.screen_width", " = renpy.config.screen_width\n",
      "self.screen_height", " = renpy.config.screen_height">>

\* the four argument lines of the SnowParticle call, as the file has them
\* (spaces at the ends of the lines) and as new_create writes them
ArgsOld == <<"random.uniform(-self.wind, self.wind)*depth_speed,  \n ... ) ]">>
ArgsNew == <<"random.uniform(-self.wind, self.wind) * depth_speed,\n ... ) ]">>

old_create ==
    <<"def create(self, particles, st):\n",
      "docstring: lower than the max number of particles we can have.\n",
      "if particles is None or len(particles) < self.max_particles:\n",
      "depth = random.randint(1, self.depth)\ndepth_speed = 1.5-depth/(self.depth+0.0)\n",
      "return [ ", "SnowParticle(", "self.image", "[depth-1],      \n">>
      \o ArgsOld

old_particle_create ==
    <<"return [ ", "SnowParticle(", "self.image", "[depth-1],\n">> \o ArgsNew

new_particle_create ==
    <<"return [ ", "SnowParticle(", "self, ", "self.image", "[depth-1],\n">> \o ArgsNew

new_create ==
    <<"def create(self, particles, st):\n",
      "docstring: lower than the max number we can have.\n",
      "if particles is None or len(particles) < self.max_particles:\n",
      "# PSVita optimization: use local variables to reduce attribute access\n",
      "max_p = self.max_particles\ndepth_val = self.depth\n",
      "depth = random.randint(1, depth_val)\ndepth_speed = 1.5 - depth / (depth_val + 0.0)\n">>
      \o old_particle_create

\* the lines of update that the two texts share
UpdateBody ==
    <<"if self.oldst is None: ... self.ypos += lag * self.speed\n">>

UpdateReturn == <<"return int(self.xpos), int(self.ypos), st, self.image">>

old_update ==
    <<"def update(self, st):\n",
      "docstring: Called internally in every frame to update the particle.\n",
      "\n\n">>
      \o UpdateBody \o
    <<"if self.ypos > ", "renpy.config.screen_height", " or\\\n",
      "(self.wind< 0 and self.xpos < 0) or (self.wind > 0 and self.xpos > ",
      "renpy.config.screen_width", "):\n        return None\n">>
      \o UpdateReturn

new_update ==
    <<"def update(self, st):\n",
      "docstring: Called internally in every frame to update the particle.\n",
      "# PSVita optimization: use factory cached screen size\n",
      "factory = self.factory", "\n">>
      \o UpdateBody \o
    <<"# Use cached screen size\n",
      "if self.ypos > ", "factory.screen_height", " or \\\n",
      "(self.wind < 0 and self.xpos < 0) or \\\n(self.wind > 0 and self.xpos > ",
      "factory.screen_width", "):\n    return None\n">>
      \o UpdateReturn

ParticleHead ==
    <<"class SnowParticle(object):\n",
      "docstring: Represents every particle in the screen.\n",
      "def __init__(self, ">>

old_particle_init ==
    ParticleHead \o
    <<"image, wind, speed, xborder, yborder):\n",
      "docstring: Initializes the snow particle.\n",
      "\n",
      "self.image = image">>

new_particle_init ==
    ParticleHead \o
    <<"factory, ", "image, wind, speed, xborder, yborder):\n",
      "docstring: Initializes the snow particle.\n",
      "self.factory = factory", "  # PSVita optimization: cache factory reference\n",
      "self.image = image">>

\* a guard that lets the cache be added to a text that has it
CacheAlwaysMissing(content) == TRUE

\* 'self.screen_width' not in content
CacheMissing(content) == ~Contains(content, <<"self.screen_width">>)

\* one edit of main: 'if old in content [and guard]: content =
\* content.replace(old, new); modifications.append(what)'
SnowEdit(s, applies, old, new, what) ==
    IF Contains(s.content, old) /\ applies
    THEN [content |-> StrReplace(s.content, old, new, -1),
          modifications |-> Append(s.modifications, what)]
    ELSE s

\* optimize_snow.main: the file system it leaves, the value it returns,
\* whether it wrote the file, and the modifications it listed
snow_main(files) ==
    IF ~Exists(files, snow_path)
    THEN [fs |-> files, ret |-> FALSE, wrote |-> FALSE, modifications |-> <<>>]
    ELSE
    LET original_content == files[snow_path]
        s0 == [content |-> original_content, modifications |-> <<>>]
        s1 == SnowEdit(s0, TRUE, MaxParticlesOld, MaxParticlesNew, "particle count")
        s2 == SnowEdit(s1, TRUE, DepthOld, DepthNew, "depth levels")
        s3 == SnowEdit(s2, CacheMissing(s2.content), old_image_init, new_image_init,
                       "screen size cache")
        s4 == SnowEdit(s3, TRUE, old_create, new_create, "create method")
        s5 == SnowEdit(s4, ~Contains(s4.content, <<"factory = self.factory">>),
                       old_update, new_update, "update method")
        s6 == SnowEdit(s5, ~Contains(s5.content, <<"self.factory = factory">>),
                       old_particle_init, new_particle_init, "SnowParticle constructor")
        s7 == SnowEdit(s6, ~Contains(s6.content, <<"SnowParticle(", "self, ", "self.image">>),
                       old_particle_create, new_particle_create, "particle creation call")
    IN  IF s7.content # original_content
        THEN [fs |-> WriteFile(files, snow_path, s7.content), ret |-> TRUE,
              wrote |-> TRUE, modifications |-> s7.modifications]
        ELSE [fs |-> files, ret |-> TRUE, wrote |-> FALSE,
              modifications |-> s7.modifications]

\* The texts snowblossom.rpy may hold at the start: each of its six parts as
\* the stock file has it, as the script rewrites it, or in a form the script
\* does not know.
SnowParts == <<
    {<<>>, MaxParticlesOld, MaxParticlesOld \o <<"0">>, MaxParticlesNew},
    {DepthOld, DepthNew},
    {old_image_init, new_image_init, <<"self.image=self.image_init(image)">>},
    {old_create, new_create,
     StrReplace(new_create, old_particle_create, new_particle_create, -1),
     <<"def create(self, particles, st):\n",
       "return [ ", "SnowParticle(", "self.image", "[depth-1],      \n">> \o ArgsOld},
    {old_particle_init, new_particle_init,
     ParticleHead \o <<"image, wind, speed, xborder, yborder):\n", "self.image = image">>},
    {old_update, new_update,
     <<"def update(self, st):\n">> \o UpdateBody \o UpdateReturn} >>

SnowTexts ==
    {t[1] \o <<"\n">> \o t[2] \o <<"\n">> \o t[3] \o <<"\n">> \o t[4] \o <<"\n">>
       \o t[5] \o <<"\n">> \o t[6] \o <<"\n">> :
        t \in SnowParts[1] \X SnowParts[2] \X SnowParts[3] \X SnowParts[4]
                \X SnowParts[5] \X SnowParts[6]}

SnowInit ==
    /\ fs \in {NoFiles} \cup {[p \in {snow_path} |-> t] : t \in SnowTexts}
    /\ lines_read = NoFiles
    /\ lines_written = NoFiles
    /\ returned = [p \in {} |-> 0]
    /\ original = fs
    /\ last = NoCall
    /\ prev = NoCall
    /\ nruns = 0
    /\ MediaIdle
    /\ runner = NoRunner
    /\ walk = NoWalk
    /\ remove = NoRemove
    /\ unpack = NoUnpack

\* optimize_snow.py run as a program: main() and the exit code
SnowMain ==
    /\ nruns < MaxSnowRuns
    /\ \E r \in {snow_main(fs)} :
          /\ fs' = r.fs
          /\ last' = [op |-> "optimize_snow", auto_restore |-> FALSE,
                      ret |-> Len(r.modifications), ok |-> r.ret, wrote |-> r.wrote,
                      exit |-> ExitCode("optimize_snow.py", r.ret)]
    /\ prev' = last
    /\ nruns' = nruns + 1
    /\ UNCHANGED <<lines_read, lines_written, returned, original, not_gui_vars>>

SnowNext == SnowMain

SnowSpec == SnowInit /\ [][SnowNext]_vars

-----------------------------------------------------------------------------
(* Properties of optimize_file and its wrappers *)

Targets == {gui_path, screens_path}

\* the registry optimize_file is given for a target
ConfigsOf(p) == IF p = gui_path THEN gui_numeric_configs ELSE screens_numeric_configs

\* the call ran optimize_file on target p
Ran(call, p) ==
    \/ p = gui_path /\ call.op \in {"optimize_gui", "main"}
    \/ p = screens_path /\ call.op = "optimize_screens"
    \/ p = screens_path /\ call.op = "main" /\ gui_path \in DOMAIN original

\* the targets whose last optimize_file read and wrote lines
Processed == {p \in Targets : p \in DOMAIN lines_read}

\* the leftmost match of the k-th entry of the registry of p on line
EntryMatch(line, p, k) ==
    IF p = gui_path THEN Search(line, AssignPattern(gui_numeric_configs[k][1]))
    ELSE Search(line, KeywordPattern(screens_numeric_configs[k][1]))

\* the first entry of the numeric registry of p that matches line, 0 if none
FirstEntry(line, p) ==
    LET hits == {k \in 1..Len(ConfigsOf(p)) : EntryMatch(line, p, k) # <<>>}
    IN  IF hits = {} THEN 0 ELSE Least(hits)

\* the first name of gui_borders_configs whose pattern matches line, 0 if none
FirstBorders(line) ==
    LET hits == {k \in 1..Len(gui_borders_configs) :
                    Search(line, BordersPattern(gui_borders_configs[k])) # <<>>}
    IN  IF hits = {} THEN 0 ELSE Least(hits)

\* the match the loop body acts on: that of the first numeric entry, else, in
\* gui.rpy, that of the first Borders name; <<>> when the line matches no key
FirstMatchOn(line, p) ==
    IF FirstEntry(line, p) # 0 THEN EntryMatch(line, p, FirstEntry(line, p))
    ELSE IF p = gui_path /\ FirstBorders(line) # 0
    THEN Search(line, BordersPattern(gui_borders_configs[FirstBorders(line)]))
    ELSE <<>>

\* FirstMatchOn, tabulated for the lines of the two line tables
GuiMatchTable == [l \in DOMAIN GuiLineTable |-> FirstMatchOn(l, gui_path)]
ScreensMatchTable == [l \in DOMAIN ScreensLineTable |-> FirstMatchOn(l, screens_path)]

\* FirstMatchOn(line, p), read from the tables when it is there
FirstMatch(line, p) ==
    IF p = gui_path /\ line \in DOMAIN GuiMatchTable THEN GuiMatchTable[line]
    ELSE IF p = screens_path /\ line \in DOMAIN ScreensMatchTable
    THEN ScreensMatchTable[line]
    ELSE FirstMatchOn(line, p)

\* the number of registered gui keys that stand on the line
GuiKeysOn(line) ==
    Cardinality({i \in 1..Len(line) :
        \/ \E k \in 1..Len(gui_numeric_configs) : line[i] = gui_numeric_configs[k][1]
        \/ \E k \in 1..Len(gui_borders_configs) : line[i] = gui_borders_configs[k]})

\* line with the atoms from index a up to, not including, index b replaced by mid
Splice(line, a, b, mid) ==
    SubSeq(line, 1, a - 1) \o mid \o SubSeq(line, b, Len(line))

\* C1: two successive runs of optimize_file on a target in the default mode
\* (auto_restore = True) leave the target with the content it had after the
\* first of them, and the second returns the count the first returned.
C1_DefaultModeIdempotent ==
    [][\A p \in Targets :
          (/\ nruns' = nruns + 1
           /\ Ran(last, p) /\ last.auto_restore
           /\ Ran(last', p) /\ last'.auto_restore
           /\ p \in DOMAIN fs)
          => /\ fs'[p] = fs[p]
             /\ lines_written'[p] = lines_written[p]
             /\ returned'[p] = returned[p]]_vars

\* two default runs of optimize_gui in a row have rewritten values, and a run
\* without the restore would rewrite them once more
C1_Witness ==
    /\ last.op = "optimize_gui" /\ last.auto_restore
    /\ prev.op = "optimize_gui" /\ prev.auto_restore
    /\ last.ret > 0
    /\ fs[gui_path] # original[gui_path]
    /\ optimize_file(fs, gui_path, gui_numeric_configs, FALSE, FALSE).fs[gui_path]
          # fs[gui_path]

\* C2: once a target has been processed, <target>.backup exists and holds the
\* content the target had before the first run; no later run, in either mode,
\* changes it.
C2_BackupIsOriginal ==
    \A p \in Targets :
        /\ Exists(fs, BackupPath(p)) => Exists(original, p) /\ fs[BackupPath(p)] = original[p]
        /\ (p \in DOMAIN returned /\ returned[p] >= 0) => Exists(fs, BackupPath(p))

\* a run without the restore on a target that earlier runs have rewritten
C2_Witness ==
    /\ nruns >= 2
    /\ last.op = "optimize_gui" /\ ~last.auto_restore /\ last.ret > 0
    /\ prev.op = "optimize_gui" /\ prev.ret > 0
    /\ lines_read[gui_path] # Readlines(original[gui_path])
    /\ fs[gui_path] # original[gui_path]
    /\ fs[BackupPath(gui_path)] = original[gui_path]

\* the lines of gui.rpy that hold one registered key, which the k-th numeric
\* entry matches first
AssignLines(k) ==
    {i \in 1..Len(lines_read[gui_path]) :
        /\ GuiKeysOn(lines_read[gui_path][i]) = 1
        /\ FirstEntry(lines_read[gui_path][i], gui_path) = k}

\* line with the literal of its assignment to name replaced by the digits of v
AssignedTo(line, name, v) ==
    LET m == Search(line, AssignPattern(name))
    IN  Splice(line, m[5], m[6], FormatInt(v))

\* the value of the literal of the assignment to name on line
LiteralOf(line, name) ==
    LET m == Search(line, AssignPattern(name))
    IN  ParseInt(SubSeq(line, m[5], m[6] - 1))

\* C3: for an assignment to a key without a transform of its own, whatever the
\* digits of its literal (0 and leading zeros included), the written line is
\* the line read with the literal replaced by max(1, floor(old * 0.75)).
C3_DefaultRatio ==
    gui_path \in Processed =>
        \A k \in 1..Len(gui_numeric_configs) :
            gui_numeric_configs[k][2] =>
                \A i \in AssignLines(k) :
                    LET line == lines_read[gui_path][i]
                        name == gui_numeric_configs[k][1]
                        old == LiteralOf(line, name)
                    IN  lines_written[gui_path][i]
                          = AssignedTo(line, name, Max(1, (old * 3) \div 4))

\* the floor constant and the factor, in hundredths, of the font-size keys
FontSizeKeys ==
    [name \in {"gui.text_size", "gui.name_text_size", "gui.interface_text_size",
               "gui.label_text_size", "gui.notify_text_size", "gui.title_text_size"} |->
        CASE name = "gui.text_size" -> <<18, 90>>
          [] name = "gui.name_text_size" -> <<22, 87>>
          [] name = "gui.interface_text_size" -> <<18, 90>>
          [] name = "gui.label_text_size" -> <<20, 90>>
          [] name = "gui.notify_text_size" -> <<14, 90>>
          [] name = "gui.title_text_size" -> <<40, 90>>]

\* C4: for an assignment to a font-size key the written line is the line read
\* with the literal replaced by max(floor_const, floor(old * factor)), for
\* every integer old.
C4_ClampedFontSize ==
    gui_path \in Processed =>
        \A k \in 1..Len(gui_numeric_configs) :
            gui_numeric_configs[k][1] \in DOMAIN FontSizeKeys =>
                \A i \in AssignLines(k) :
                    LET line == lines_read[gui_path][i]
                        name == gui_numeric_configs[k][1]
                        old == LiteralOf(line, name)
                        c == FontSizeKeys[name]
                    IN  lines_written[gui_path][i]
                          = AssignedTo(line, name, Max(c[1], (old * c[2]) \div 100))

\* the lines of gui.rpy that hold one registered key and match no numeric
\* entry but a Borders pattern
BordersLines ==
    {i \in 1..Len(lines_read[gui_path]) :
        /\ GuiKeysOn(lines_read[gui_path][i]) = 1
        /\ FirstEntry(lines_read[gui_path][i], gui_path) = 0
        /\ FirstBorders(lines_read[gui_path][i]) # 0}

\* line with each of the four integers of its Borders call scaled by
\* max(1, floor(v * 0.75)), and everything else, the whitespace after the
\* commas included, as it was
BordersScaled(line) ==
    LET m == Search(line, BordersPattern(gui_borders_configs[FirstBorders(line)]))
        Scaled(a, b) == FormatInt(Max(1, (ParseInt(SubSeq(line, a, b - 1)) * 3) \div 4))
    IN  SubSeq(line, 1, m[7] - 1)
          \o Scaled(m[7], m[8]) \o SubSeq(line, m[8], m[10] - 1)
          \o Scaled(m[10], m[11]) \o SubSeq(line, m[11], m[13] - 1)
          \o Scaled(m[13], m[14]) \o SubSeq(line, m[14], m[16] - 1)
          \o Scaled(m[16], m[17]) \o SubSeq(line, m[17], Len(line))

\* C5: a line that assigns Borders(l, t, r, b) to a registered Borders key is
\* written with each of the four integers scaled by max(1, floor(v * 0.75)),
\* whatever whitespace follows the commas.
C5_BordersScaled ==
    gui_path \in Processed =>
        \A i \in BordersLines :
            lines_written[gui_path][i] = BordersScaled(lines_read[gui_path][i])

\* s begins with pre and ends with post, which do not overlap in s
Around(s, pre, post) ==
    /\ Len(s) >= Len(pre) + Len(post)
    /\ SubSeq(s, 1, Len(pre)) = pre
    /\ SubSeq(s, Len(s) - Len(post) + 1, Len(s)) = post

\* C6: a line is rewritten by the first key that matches it and by no other,
\* and by one substitution: outside the text that key's pattern matched, the
\* written line is the line read (no second occurrence is altered).
C6_OneSubstitution ==
    \A p \in Processed :
        \A i \in 1..Len(lines_read[p]) :
            LET line == lines_read[p][i]
                m == FirstMatch(line, p)
            IN  (m # <<>> /\ ~Contains(line, GuiInitOld)) =>
                    Around(lines_written[p][i],
                           SubSeq(line, 1, m[1] - 1),
                           SubSeq(line, m[Len(m)], Len(line)))

C8_MissingTarget ==
    [][nruns' = nruns + 1 =>
          /\ (last'.op = "optimize_gui" /\ ~Exists(fs, gui_path))
                => /\ fs' = fs
                   /\ last'.ret = -1
                   /\ returned'[gui_path] = -1
                   /\ lines_read' = lines_read /\ lines_written' = lines_written
          /\ (last'.op = "optimize_screens" /\ ~Exists(fs, screens_path))
                => /\ fs' = fs
                   /\ last'.ret = -1
                   /\ returned'[screens_path] = -1
                   /\ lines_read' = lines_read /\ lines_written' = lines_written]_vars

\* optimize_screens was called on a missing screens.rpy next to a gui.rpy
\* that had been rewritten
C8_Witness ==
    /\ ~Exists(original, screens_path)
    /\ Exists(fs, BackupPath(gui_path))
    /\ last.op = "optimize_screens"
    /\ last.ret = -1
    /\ returned[screens_path] = -1

\* the lines of target p that a registered pattern matches
MatchedLines(p) ==
    {i \in 1..Len(lines_read[p]) : FirstMatch(lines_read[p][i], p) # <<>>}

\* 1 when the gui.init call was replaced in target p, else 0
InitReplaced(p) ==
    IF p = gui_path /\ Contains(Join(lines_read[p]), GuiInitOld) THEN 1 ELSE 0

\* C9, as stated: the value optimize_file returns is the number of lines
\* whose matched literal the written file holds replaced, plus one when the
\* gui.init call was replaced; a line whose text the replacement did not
\* change is not counted.
C9_CountsChangedLines ==
    \A p \in Processed :
        returned[p] = Cardinality({i \in MatchedLines(p) :
                                      lines_written[p][i] # lines_read[p][i]})
                        + InitReplaced(p)

\* C9, amended: the value optimize_file returns is the number of lines that
\* a registered pattern matched, whether or not the replacement changed
\* their text, plus one when the gui.init call was replaced.
C9_CountsMatchedLines ==
    \A p \in Processed :
        returned[p] = Cardinality(MatchedLines(p)) + InitReplaced(p)

\* an assignment whose literal is the value its transform yields: the line
\* matched, was written as it was read, and was counted
C9_Witness ==
    /\ gui_path \in Processed
    /\ \E i \in MatchedLines(gui_path) :
          LET line == lines_read[gui_path][i]
              k == FirstEntry(line, gui_path)
          IN  /\ k # 0
              /\ AssignedTo(line, gui_numeric_configs[k][1],
                            LiteralOf(line, gui_numeric_configs[k][1])) = line
              /\ lines_written[gui_path][i] = line
              /\ returned[gui_path] = Cardinality(MatchedLines(gui_path))
              /\ returned[gui_path] > 0

\* the files a call of optimize_audio or optimize_image left in the temporary
\* directory
Scratch == DOMAIN tempdir

\* C10: when optimize_audio, optimize_image or save_png_with_pngquant has
\* returned, with success, a skip, a tool failure or a caught exception,
\* every temporary file the call created has been moved onto its destination
\* or removed: no scratch file remains in the temporary directory, whatever
\* the extension of the input.
C10_NoScratchRemains == Scratch = {}

\* C11: a script run as a program exits with code 0 when its main reports
\* success and with code 1 when its main reports failure; for optimize_gui.py
\* main reports failure when gui.rpy or screens.rpy is missing.
C11_ExitCodes ==
    last.op = "main" => last.exit = (IF last.ok THEN 0 ELSE 1)

\* the stages the runner started that ended with exit code 0
StagesPassed ==
    {k \in 1..Len(runner.log) : runner.log[k].finished /\ runner.log[k].exit = 0}

\* C12: a workflow runner starts its stages in the listed order, starts a
\* stage only after the previous one finished with exit code 0, starts no
\* stage after the first one that fails (non-zero exit code, missing script
\* or launch exception), and its main returns True iff every listed stage
\* ran and ended with exit code 0; fail_count is 0 or 1 and success_count +
\* fail_count is at most the number of stages.
C12_Workflow ==
    runner.pc # "none" =>
        /\ Len(runner.log) <= Len(runner.scripts)
        /\ \A k \in 1..Len(runner.log) : runner.log[k].script = runner.scripts[k]
        /\ \A k \in 1..(Len(runner.log) - 1) : k \in StagesPassed
        /\ runner.fail_count > 0 =>
              /\ runner.pc \in {"after", "returned", "exited"}
              /\ Len(runner.refused) = 1 \/ Len(runner.log) \notin StagesPassed
        /\ Len(runner.refused) > 0 => runner.fail_count = 1
        /\ runner.fail_count \in {0, 1}
        /\ runner.success_count = Cardinality(StagesPassed)
        /\ runner.success_count + runner.fail_count <= Len(runner.scripts)
        /\ runner.pc \in {"returned", "exited"} =>
              (runner.result <=> StagesPassed = 1..Len(runner.scripts))

\* the four-stage runner returned False after its third stage, the first one
\* to fail, ended with a non-zero exit code
C12_Witness ==
    /\ runner.pc = "returned"
    /\ runner.scripts = run_lossless_w_gui
    /\ Len(runner.log) = 3
    /\ runner.log[3].finished /\ runner.log[3].exit # 0
    /\ runner.success_count = 2 /\ runner.fail_count = 1
    /\ ~runner.result

-----------------------------------------------------------------------------
(* Properties of the directory walks *)

\* optimize_images_v2.py has walked its directories and main has returned
V2Returned ==
    /\ walk.pc \in {"returned", "exited"}
    /\ walk.script = "optimize_images_v2.py"

\* the files process_directory counted
Handled == walk.counts.processed + walk.counts.skipped + walk.counts.errors

\* C13: main of optimize_images_v2.py reports success when the errors are at
\* most one tenth of the files handled (processed, skipped and errors),
\* exactly one tenth included, and failure when they are more; with no file
\* handled it reports success.
C13_TenPercentTolerance ==
    V2Returned => (walk.success <=> walk.counts.errors * 10 <= Handled)

\* one error among ten files handled
C13_ExactlyTenPercent ==
    /\ V2Returned
    /\ walk.counts.errors = 1
    /\ Handled = 10

\* the counters of process_directory, as a sequence
CountsOf(w) == <<w.counts.processed, w.counts.skipped, w.counts.errors>>

\* this step of the walk met a supported file, called the optimizer on it
\* and went on walking
Attempted ==
    /\ walk.pc = "walking"
    /\ walk'.pc = "walking"
    /\ walk'.found = walk.found + 1

\* C15: in process_directory of optimize_images.py, optimize_images_v2.py
\* and optimize_audio.py a failure on one file does not stop the walk; every
\* supported file increments exactly one of processed, skipped and errors,
\* a file that is not supported increments none, and the three counters sum
\* to the number of supported files found, whatever the names of the files.
C15_OneCounterPerFile ==
    /\ [](walk.pc # "none" => Handled = walk.found)
    /\ [][walk.pc = "walking" =>
            /\ walk'.pc = "walking" => walk'.met = walk.met + 1
            /\ Attempted =>
                  \E i \in 1..3 :
                     CountsOf(walk') = [CountsOf(walk) EXCEPT ![i] = @ + 1]
            /\ walk'.found = walk.found => CountsOf(walk') = CountsOf(walk)]_vars

\* a walk that went over an error, a skip, a success and a file that is not
\* supported, and returned
C15_Witness ==
    /\ walk.pc = "returned"
    /\ walk.counts.errors >= 1
    /\ walk.counts.skipped >= 1
    /\ walk.counts.processed >= 1
    /\ walk.met > walk.found
    /\ walk.found = Handled

-----------------------------------------------------------------------------
(* Properties of the optimizers on an output larger than the original *)

\* the call of this step was on path, which existed, and the file the tool
\* wrote for it was larger than path
LargerOutput(path) ==
    /\ Exists(disk, path)
    /\ media_last'.path = path
    /\ media_last'.new_size > disk[path].size

\* the call of this step left the original as it was and reported a skip
IsSkip ==
    /\ disk' = disk
    /\ ~media_last'.success
    /\ media_last'.message = "Skipped"

\* the output of this step for path is that of a recompression of
\* optimize_audio and exceeds path by more than 0.01 MB
OverTolerance(path) ==
    /\ media_last'.op = "optimize_audio"
    /\ Lower(Splitext(path)) \in {".mp3", ".ogg"}
    /\ (media_last'.new_size - disk[path].size) * 100 > 1048576

\* the call of this step did not keep the original (the larger output took
\* its place, or the original was deleted after a conversion) and reported
\* success, or failed on moving the output
IsReplaced(path) ==
    \/ /\ media_last'.success
       /\ media_last'.message \in {"Converted", "Processed", "Resized"}
       /\ Exists(disk', path) => disk'[path].size = media_last'.new_size
    \/ /\ ~media_last'.success
       /\ media_last'.message = "Error"
       /\ disk' = disk

-----------------------------------------------------------------------------
(* Properties of remove_op.py *)

\* this step is a run of remove_op.py
RemoveRan == remove'.n = remove.n + 1

\* C16: a run of remove_op.py with --dry-run or with --scan-only, alone or
\* with --restore, writes no .rpy file and deletes no .webm file: the files
\* under game/ and their contents are after the run what they were before.
C16_PreviewReadOnly ==
    [][RemoveRan /\ (remove'.last.dry_run \/ remove'.last.scan_only) =>
          /\ remove'.scripts = remove.scripts
          /\ remove'.webm = remove.webm]_vars

\* a preview that found a script to modify and a video to delete
C16_Witness ==
    /\ remove.pc = "idle"
    /\ remove.last.op = "main"
    /\ remove.last.dry_run
    /\ ~remove.last.scan_only
    /\ ~remove.last.restore
    /\ remove.last.modified_files # {}
    /\ remove.webm # {}

\* a run that changes the project (neither --dry-run nor --scan-only) and
\* that returned True
RealRun(call, restore) ==
    /\ call.op = "main"
    /\ ~call.dry_run
    /\ ~call.scan_only
    /\ call.restore = restore
    /\ call.ret

\* C17: a default run of remove_op.py followed by a run with --restore
\* leaves every script with exactly the content it had before the two runs:
\* uncomment_webm_lines undoes comment_webm_lines, indentation, trailing text
\* and the lines that were comments already included.
C17_RestoreRoundTrip ==
    remove.pc = "idle" /\ RealRun(remove.prev, FALSE) /\ RealRun(remove.last, TRUE)
        => remove.scripts = remove.before

-----------------------------------------------------------------------------
(* Properties of repeated runs of the image optimizers *)

\* this step is a call of an image optimizer on path, an image whose two
\* dimensions are at least 2
CalledOnImage(path) ==
    /\ nruns' = nruns + 1
    /\ media_last'.op \in {"optimize_image", "optimize_image_v1"}
    /\ media_last'.path = path
    /\ Exists(disk, path)
    /\ disk[path].dims[1] >= 2
    /\ disk[path].dims[2] >= 2

-----------------------------------------------------------------------------
(* Properties of unpack_and_decompile.py *)

\* the position of a step among the four
StepNo(step) == CHOOSE k \in 1..4 :
                    <<"unpack", "decompile", "delete_rpa", "delete_rpyc">>[k] = step

-----------------------------------------------------------------------------
(* Properties of optimize_file without the restore *)

\* this step ran optimize_file on target p, which existed
RanOn(p) ==
    /\ nruns' = nruns + 1
    /\ Ran(last', p)
    /\ p \in DOMAIN fs
    /\ p \in DOMAIN lines_read'

\* on every line of gui.rpy read in this step that holds one registered key
\* and matches a numeric entry, the literal was replaced by the value the
\* transform of the entry gives for it
TransformApplied ==
    \A i \in 1..Len(lines_read'[gui_path]) :
        LET line == lines_read'[gui_path][i]
            k == FirstEntry(line, gui_path)
        IN  GuiKeysOn(line) = 1 /\ k # 0 =>
               lines_written'[gui_path][i]
                  = AssignedTo(line, gui_numeric_configs[k][1],
                               NewValue(IF Len(gui_numeric_configs[k]) = 2 THEN NoTransform
                                        ELSE gui_numeric_configs[k][3],
                                        LiteralOf(line, gui_numeric_configs[k][1])))

\* C20: with --no-restore optimize_file does not copy the backup over the
\* target: it reads the current content of the target and applies the
\* registered transform to every matching literal once more, so that n runs
\* apply it n times, while the backup keeps the original; a later run in the
\* default mode reads the original again and leaves the target transformed
\* once.
C20_NoRestoreCompounds ==
    [][\A p \in Targets :
          RanOn(p) =>
             /\ ~last'.auto_restore =>
                   /\ lines_read'[p] = Readlines(fs[p])
                   /\ p = gui_path => TransformApplied
             /\ Exists(fs, BackupPath(p)) =>
                   /\ fs'[BackupPath(p)] = fs[BackupPath(p)]
                   /\ fs'[BackupPath(p)] = original[p]
             /\ last'.auto_restore /\ Exists(fs, BackupPath(p)) =>
                   lines_read'[p] = Readlines(original[p])]_vars

\* the stages of the runner whose child was optimize_gui.py and whose main
\* reported failure (returned False)
GuiStageFailed ==
    {k \in 1..Len(runner.log) :
        /\ runner.log[k].script = "optimize_gui.py"
        /\ runner.log[k].finished
        /\ runner.log[k].outcome = "false"}

\* a run of optimize_gui.main that found no gui.rpy reports failure and
\* leaves the file system and the record of screens.rpy as they were
C21_MissingGuiLeavesScreens ==
    [][(last'.op = "main" /\ ~Exists(fs, gui_path) /\ ~Exists(fs, BackupPath(gui_path))) =>
          /\ ~last'.ok
          /\ fs' = fs
          /\ lines_read' = lines_read
          /\ lines_written' = lines_written
          /\ screens_path \in DOMAIN returned' => screens_path \in DOMAIN returned
                                                   /\ returned'[screens_path] = returned[screens_path]]_vars

\* C21: when the GUI stage fails (gui.rpy missing, optimize_gui.main reports
\* failure without touching screens.rpy), the run_lossless_w_gui workflow
\* stops: no stage is started after it and the workflow does not return True.
C21_GuiFailureStopsWorkflow ==
    \A k \in GuiStageFailed :
        /\ Len(runner.log) = k
        /\ runner.pc \in {"returned", "exited"} => ~runner.result

\* the number of places of s where the atoms of w stand
Occurrences(s, w) == Cardinality({i \in 1..Len(s) : OccursAt(s, w, i)})

\* the text the per-line pass makes of the lines read from target p
PerLinePass(p) ==
    Join(NewLinesOf(ProcessLines(lines_read[p], ConfigsOf(p), p = screens_path)))

\* s with every gui.init call, old or new, replaced by one mark
InitErased(s) ==
    StrReplace(StrReplace(s, GuiInitOld, <<"gui.init(...)">>, -1),
               GuiInitNew, <<"gui.init(...)">>, -1)

\* C22: the file optimize_file writes for gui.rpy holds no 'gui.init(1280,
\* 720)': each occurrence in the text of the per-line pass has become
\* 'gui.init(960, 544)' and every other character is as the per-line pass
\* left it; the replacement adds exactly 1 to the returned count however many
\* occurrences there were, and it is never applied to screens.rpy.
C22_GuiInitRewrite ==
    /\ gui_path \in Processed =>
          LET written == Join(lines_written[gui_path])
              pass == PerLinePass(gui_path)
          IN  /\ ~Contains(written, GuiInitOld)
              /\ Occurrences(written, GuiInitNew)
                    = Occurrences(pass, GuiInitNew) + Occurrences(pass, GuiInitOld)
              /\ InitErased(written) = InitErased(pass)
              /\ returned[gui_path] >= 0 =>
                    returned[gui_path]
                       = Cardinality(MatchedLines(gui_path))
                           + (IF Occurrences(pass, GuiInitOld) > 0 THEN 1 ELSE 0)
              /\ (Ran(last, gui_path) /\ last.op # "main" /\ last.ok) =>
                    fs[gui_path] = written
    /\ screens_path \in Processed =>
          /\ Join(lines_written[screens_path]) = PerLinePass(screens_path)
          /\ Occurrences(Join(lines_written[screens_path]), GuiInitOld)
                = Occurrences(Join(lines_read[screens_path]), GuiInitOld)
          /\ returned[screens_path] >= 0 =>
                returned[screens_path] = Cardinality(MatchedLines(screens_path))

\* a gui.rpy that held the call twice on one line next to an assignment to a
\* registered key: both calls were replaced and the count is 2
C22_Witness ==
    /\ gui_path \in Processed
    /\ last.op = "optimize_gui"
    /\ Occurrences(Join(lines_read[gui_path]), GuiInitOld) = 2
    /\ Cardinality(MatchedLines(gui_path)) = 1
    /\ Occurrences(fs[gui_path], GuiInitNew) = 2
    /\ returned[gui_path] = 2

\* a screens.rpy that held the call was written with it
C22_ScreensKeepInit ==
    /\ screens_path \in Processed
    /\ last.op = "optimize_screens" /\ last.ok
    /\ Contains(fs[screens_path], GuiInitOld)

\* the match of the keyword pattern of some entry of screens_numeric_configs
\* that starts at index i of line, <<>> if there is none
KeywordAt(line, i) ==
    LET hits == {k \in 1..Len(screens_numeric_configs) :
                    MatchFrom(line, KeywordPattern(screens_numeric_configs[k][1]),
                              1, <<i>>) # <<>>}
    IN  IF hits = {} THEN <<>>
        ELSE MatchFrom(line, KeywordPattern(screens_numeric_configs[Least(hits)][1]),
                       1, <<i>>)

\* line from index i on, with the integer after every occurrence of a
\* registered keyword replaced by max(1, floor(old * 0.75))
RECURSIVE RescaledFrom(_, _)
RescaledFrom(line, i) ==
    IF i > Len(line) THEN <<>>
    ELSE LET m == KeywordAt(line, i)
         IN  IF m = <<>> THEN <<line[i]>> \o RescaledFrom(line, i + 1)
             ELSE SubSeq(line, m[1], m[3] - 1)
                    \o FormatInt(Max(1, (ParseInt(SubSeq(line, m[3], m[4] - 1)) * 3) \div 4))
                    \o RescaledFrom(line, m[4])

\* C23: in screens mode only the keyword of a registry entry is matched:
\* on every line the integer after every occurrence of '<keyword> <digits>'
\* is rescaled, whatever the number is, and of two entries with the same
\* keyword ('xsize 280', 'xsize 920') the second one never fires.
C23_KeywordOnly ==
    screens_path \in Processed =>
        \A i \in 1..Len(lines_read[screens_path]) :
            LET line == lines_read[screens_path][i]
            IN  /\ lines_written[screens_path][i] = RescaledFrom(line, 1)
                /\ FirstEntry(line, screens_path) # 2
                /\ Truthy(TryConfig(line, screens_numeric_configs, TRUE, 2))
                      => Truthy(TryConfig(line, screens_numeric_configs, TRUE, 1))

\* the part of C23 the script keeps: a line with one occurrence of a
\* registered keyword, followed by an integer without leading zeros, is
\* written with that integer rescaled, whatever the number is, and the entry
\* that fires is never the second of two with the same keyword
C23_SingleOccurrence ==
    screens_path \in Processed =>
        \A i \in 1..Len(lines_read[screens_path]) :
            LET line == lines_read[screens_path][i]
                m == FirstMatch(line, screens_path)
                once == Cardinality({j \in 1..Len(line) : KeywordAt(line, j) # <<>>}) = 1
            IN  /\ FirstEntry(line, screens_path) # 2
                /\ (once /\ line[m[3]] # "0") =>
                      lines_written[screens_path][i] = RescaledFrom(line, 1)

\* the line assigns a negative literal to a registered gui key: '= -5'
NegativeLiteral(line) ==
    /\ GuiKeysOn(line) = 1
    /\ Contains(line, <<"=", " ", "-">>)

\* the line assigns a decimal literal to a registered gui key: the digits the
\* pattern of the key matched are followed by a point, as in '= 0.5'
DecimalLiteral(line) ==
    LET m == FirstMatch(line, gui_path)
    IN  /\ GuiKeysOn(line) = 1
        /\ m # <<>>
        /\ m[Len(m)] <= Len(line)
        /\ line[m[Len(m)]] = "."

\* the lines read from gui.rpy whose literal is negative or decimal
NotUnsigned ==
    {i \in 1..Len(lines_read[gui_path]) :
        \/ NegativeLiteral(lines_read[gui_path][i])
        \/ DecimalLiteral(lines_read[gui_path][i])}

\* C24: optimize_file only touches complete unsigned integer literals: a
\* line that assigns a negative value ('= -5') or a decimal value ('= 0.5')
\* to a registered key is written as it was read and is not counted.
C24_UnsignedIntegersOnly ==
    gui_path \in Processed =>
        /\ \A i \in NotUnsigned :
              lines_written[gui_path][i] = lines_read[gui_path][i]
        /\ returned[gui_path] >= 0 =>
              returned[gui_path]
                 = Cardinality(MatchedLines(gui_path) \ NotUnsigned) + InitReplaced(gui_path)

\* the part of C24 the script keeps: a line that assigns a negative value to
\* a registered key is written as it was read and is not counted
C24_NegativeUntouched ==
    gui_path \in Processed =>
        \A i \in 1..Len(lines_read[gui_path]) :
            NegativeLiteral(lines_read[gui_path][i]) =>
                /\ lines_written[gui_path][i] = lines_read[gui_path][i]
                /\ i \notin MatchedLines(gui_path)

\* the step is a call of add_scroll_to_say_screen on an existing screens.rpy
ScrollCall ==
    /\ nruns' = nruns + 1
    /\ last'.op = "add_scroll"
    /\ last'.ok

\* content with its first old_text replaced by new_text
FirstReplaced(content) ==
    LET i == Least({j \in 1..Len(content) : OccursAt(content, old_text, j)})
    IN  Splice(content, i, i + Len(old_text), new_text)

\* what C25 says of a call on a file in which stand (TRUE) the conditions under
\* which the text is replaced
ScrollCallDoes(replaces) ==
    LET before == fs[screens_path]
        after == fs'[screens_path]
    IN  /\ Occurrences(after, ScrollMarker) <= 1
        /\ IF replaces
           THEN /\ last'.ret = 1
                /\ after = FirstReplaced(before)
                /\ Occurrences(after, ScrollMarker) = 1
           ELSE /\ last'.ret = 0
                /\ fs' = fs
        /\ (last.op = "add_scroll" /\ last.ok /\ last.ret = 1) =>
              /\ last'.ret = 0
              /\ fs' = fs

\* C25, as stated: after any number of calls of add_scroll_to_say_screen the
\* marker occurs at most once; the first call that finds 'text what id "what"'
\* (in a file without the marker) replaces only its first occurrence and
\* returns 1, and every later call returns 0 and leaves the file unchanged.
C25_ScrollOnce ==
    [][ScrollCall =>
          ScrollCallDoes(/\ ~Contains(fs[screens_path], ScrollMarker)
                         /\ Contains(fs[screens_path], old_text))]_vars

\* C25, amended: the text is replaced by the first call that finds it in a
\* file that holds neither the marker nor 'id "dialogue_viewport"'; a call on
\* a file that holds one of them returns 0 and leaves the file unchanged.
C25_ScrollOnceUnlessViewport ==
    [][ScrollCall =>
          ScrollCallDoes(/\ ~Contains(fs[screens_path], ScrollMarker)
                         /\ ~Contains(fs[screens_path], ViewportId)
                         /\ Contains(fs[screens_path], old_text))]_vars

\* two calls in a row on a file that held the say text twice: the first one
\* returned 1, the second 0, and the marker stands once in the file
C25_Witness ==
    /\ Exists(original, screens_path)
    /\ Occurrences(original[screens_path], old_text) = 2
    /\ prev.op = "add_scroll" /\ prev.ret = 1
    /\ last.op = "add_scroll" /\ last.ret = 0
    /\ Occurrences(fs[screens_path], ScrollMarker) = 1

\* a call on a file that holds the say text and 'id "dialogue_viewport"' but
\* not the marker returned 0
C25_ViewportPresent ==
    /\ last.op = "add_scroll" /\ last.ok /\ last.ret = 0
    /\ fs = original
    /\ Contains(fs[screens_path], old_text)
    /\ Contains(fs[screens_path], ViewportId)
    /\ ~Contains(fs[screens_path], ScrollMarker)

\* the path of the converted output: that of the input, in the same
\* directory, with the extension .ogg
OggOf(path) == SubSeq(path, 1, Len(path) - 1) \o <<".ogg">>

\* the step is a call of optimize_audio on an input that exists
AudioCall ==
    /\ nruns' = nruns + 1
    /\ media_last'.op = "optimize_audio"
    /\ Exists(disk, media_last'.path)

\* C26: audio conversion never loses a file: when optimize_audio returns
\* success for an input whose extension, in any letter case, is not .mp3 or
\* .ogg, the converted .ogg output exists in the input's directory and only
\* the original input has been removed; in every outcome at least one of the
\* original file and its converted output exists after the call.
C26_ConversionKeepsAFile ==
    [][AudioCall =>
          LET path == media_last'.path
              converts == Lower(Splitext(path)) \notin {".mp3", ".ogg"}
          IN  /\ (media_last'.success /\ converts) =>
                    /\ Exists(disk', OggOf(path))
                    /\ DOMAIN disk' = (DOMAIN disk \ {path}) \cup {OggOf(path)}
                    /\ \A p \in DOMAIN disk \ {path, OggOf(path)} : disk'[p] = disk[p]
              /\ Exists(disk', path) \/ Exists(disk', OggOf(path))]_vars

\* the part of C26 the script keeps: the claim for inputs whose extension is
\* written in lower case
C26_LowerCaseKeepsAFile ==
    [][(AudioCall /\ Splitext(media_last'.path) = Lower(Splitext(media_last'.path))) =>
          LET path == media_last'.path
              converts == Splitext(path) \notin {".mp3", ".ogg"}
          IN  /\ (media_last'.success /\ converts) =>
                    /\ Exists(disk', OggOf(path))
                    /\ DOMAIN disk' = (DOMAIN disk \ {path}) \cup {OggOf(path)}
              /\ Exists(disk', path) \/ Exists(disk', OggOf(path))]_vars

\* the step is a run of optimize_snow.main
SnowRun == nruns' = nruns + 1 /\ last'.op = "optimize_snow"

\* C27: optimize_snow.main is idempotent: a second run in a row leaves the
\* file as the first run left it, makes no modification, does not write the
\* file and returns True.
C27_SnowIdempotent ==
    [][(SnowRun /\ last.op = "optimize_snow" /\ last.ok) =>
          /\ fs' = fs
          /\ last'.ret = 0
          /\ ~last'.wrote
          /\ last'.ok]_vars

\* a second run after a first one that made all seven modifications
C27_Witness ==
    /\ prev.op = "optimize_snow" /\ prev.ret = 7 /\ prev.wrote
    /\ last.op = "optimize_snow" /\ last.ok /\ ~last.wrote
    /\ fs # original

\* the text holds the rewritten update method, which reads self.factory and
\* the screen size cached in the factory
HasNewUpdate(content) == Contains(content, new_update)

\* the text holds what the rewritten update method needs: the constructor
\* that stores factory, the creation call that passes the factory first, and
\* the screen-size cache of the factory
HasFactorySupport(content) ==
    /\ Contains(content, new_particle_init)
    /\ Contains(content, new_particle_create)
    /\ Contains(content, new_image_init)

\* C28: a run of optimize_snow.main that writes the rewritten update method
\* leaves a file that also holds the rewritten SnowParticle constructor, the
\* creation call that passes the factory and the screen-size cache: no subset
\* of the edits that leaves update referring to a missing attribute is
\* written.
C28_SnowEditsConsistent ==
    [][(/\ SnowRun
        /\ Exists(fs, snow_path)
        /\ ~HasNewUpdate(fs[snow_path])
        /\ HasNewUpdate(fs'[snow_path]))
       => HasFactorySupport(fs'[snow_path])]_vars

\* the part of C28 the script keeps: on a file whose parts are all in stock
\* form, the seven edits are made together
C28_StockFileConsistent ==
    [][(SnowRun /\ last'.ret = 7) =>
          HasNewUpdate(fs'[snow_path]) /\ HasFactorySupport(fs'[snow_path])]_vars

\* the files the run deleted: os.remove was called on them and they are gone
Deleted ==
    {f \in GameFiles \cup UNION Packed :
        /\ \E k \in 1..Len(unpack.log) :
              unpack.log[k] \in {<<"delete_rpa", f>>, <<"delete_rpyc", f>>}
        /\ f \notin unpack.files}

\* C29: in unpack_and_decompile.main a .rpa file is deleted only if its
\* unpack succeeded in this run and a .rpyc file is deleted only if its
\* decompile succeeded; a run that returns False because an unpack or a
\* decompile failed has not deleted the file whose transform failed.
C29_DeletedOnlyAfterSuccess ==
    unpack.pc # "none" => Deleted \subseteq unpack.succeeded

\* the part of C29 the script keeps: a file is deleted only after Step 1/4
\* and Step 2/4 are over, and a run in which every unpack and decompile
\* succeeded has deleted only files it unpacked or decompiled, or files that
\* an archive brought
C29_DeletedAfterTransforms ==
    unpack.pc # "none" =>
        /\ Deleted # {} => unpack.pc \notin {"start", "unpack", "decompile"}
        /\ ~unpack.has_error =>
              Deleted \subseteq unpack.succeeded \cup Find(UNION Packed, ".rpa")

====
